---------------------------- MODULE Spec2Model ----------------------------
(***************************************************************************)
(* Sai-PnL: reconstruction of a trader's perpetual-futures history.        *)
(*                                                                         *)
(* Two request handlers are modelled.                                      *)
(*   - GET /api/trades and GET /api/positions of src/server/routes.ts:     *)
(*     the GraphQL point-in-time list (perpTrades) and change-log          *)
(*     (tradeHistory) are merged, fees come from RPC receipts.             *)
(*   - getAddressTransactions of src/shared/schema.ts (log-scan): the      *)
(*     decoded logs of one transaction are replayed into one Trade.        *)
(*                                                                         *)
(* Numbers.  Raw amounts are 6-decimal integers; the model draws them as   *)
(* whole multiples of E6 so that the code's "/ 1e6" is the exact quotient  *)
(* "\div E6".  Percentages (profitPct, pnlPct) are held in hundredths      *)
(* (0.12 is 12).  An optional field (undefined / null in the code) is the  *)
(* empty tuple None, a present value v is Some(v).  A timestamp is an      *)
(* integer instant; Date.getTime() order is integer order.                 *)
(***************************************************************************)
EXTENDS Integers, Sequences, FiniteSets, TLC

VARIABLES
    \* ---- upstream data of one /api/trades request (routes.ts) ----
    perpTrades,      \* tradesResult.perp.trades
    tradeHistory,    \* historyResult.perp.tradeHistory
    rpcReceipts,     \* what eth_getTransactionReceipt answers per tx hash
    now,             \* the wall clock read by new Date()
    \* ---- the /api/trades handler ----
    pc,              \* position in the handler
    validTxs,        \* fetchFeesFromRpc: the filtered txHashesForFees
    feeI,            \* fetchFeesFromRpc: loop index i
    feeMap,          \* Map<tradeId, TradeFees>
    trades,          \* the Trade[] being built, then sorted
    response,        \* the TradesResponse statistics
    firstTrades,     \* the list returned by the previous reconciliation
    run,             \* how many reconciliations of these inputs have started
    \* ---- the /api/positions handler ----
    positions,       \* None, or Some(result) once the handler answered
    \* ---- log-scan replay of one transaction (schema.ts) ----
    txLogs,          \* the parsed logs of the transaction, in receipt order
    logIdx,          \* how many of them have been replayed
    trade,           \* the Trade under construction
    scanPc,          \* position in the per-transaction loop
    \* ---- one HTTP request and its GraphQL queries (part_002) ----
    req,             \* the endpoint and the query parameters of the request
    gqlAnswers,      \* what the upstream answers to each query of the request
    gqlCalls,        \* how many primary and reduced query rounds were issued
    \* ---- fetchFeesFromRpc, request by request ----
    inFlight,        \* positions of validTxs whose receipt request is unsettled
    results,         \* the settled callbacks of the current batch, by position
    \* ---- the global-volume cache (part_002) ----
    volumeCache,     \* per network: totalVolume, tradeCount, lastUpdated
    volumeData,      \* per network: the pages the change-log query answers
    volumeRuns,      \* the fetchGlobalVolume calls in flight, with their locals
    volumeTimer,     \* not armed, or the number of times the interval fired
    volumeClock,     \* the wall clock read by fetchGlobalVolume
    volumeDone,      \* the cache entries written by finished recomputations
    volumeRead,      \* None, or the last answer of /api/protocol-stats/volume
    \* ---- log-scan of the chain: getLogsInChunks and the receipts (schema.ts) ----
    fromBlock,       \* getLogsInChunks: first block of the search
    toBlock,         \* getLogsInChunks: last block of the search
    chainLogs,       \* the blocks that hold a log of the trader's transactions
    start,           \* getLogsInChunks: loop variable
    issued,          \* the eth_getLogs requests sent so far: fromBlock, toBlock in hex
    allLogs,         \* getLogsInChunks: the logs collected so far
    skipped,         \* the RPC calls that failed and were logged
    matchingTxHashes,\* the transactions whose receipt is still to be fetched
    txLogsMap,       \* the transactions whose receipt was fetched
    scanTrades,      \* the Trade[] getAddressTransactions returns
    chunkPc,         \* position in getAddressTransactions
    \* ---- parseEventData (schema.ts) ----
    eventInput,      \* the data of one log
    eventParsed      \* None, or Some(outcome) of parseEventData(data)

vars == <<perpTrades, tradeHistory, rpcReceipts, now, pc, validTxs, feeI, feeMap,
          trades, response, firstTrades, run, positions,
          txLogs, logIdx, trade, scanPc,
          req, gqlAnswers, gqlCalls, inFlight, results,
          volumeCache, volumeData, volumeRuns, volumeTimer, volumeClock,
          volumeDone, volumeRead,
          fromBlock, toBlock, chainLogs, start, issued, allLogs, skipped,
          matchingTxHashes, txLogsMap, scanTrades, chunkPc, eventInput, eventParsed>>

apiVars == <<perpTrades, tradeHistory, rpcReceipts, now, pc, validTxs, feeI, feeMap,
             trades, response, firstTrades, run, positions>>

chainVars == <<fromBlock, toBlock, chainLogs, start, issued, allLogs, skipped,
               matchingTxHashes, txLogsMap, scanTrades, chunkPc>>

parseVars == <<eventInput, eventParsed>>

replayVars == <<txLogs, logIdx, trade, scanPc>>

scanVars == <<replayVars, chainVars, parseVars>>

reqVars == <<req, gqlAnswers, gqlCalls>>

fetchVars == <<inFlight, results>>

volumeVars == <<volumeCache, volumeData, volumeRuns, volumeTimer, volumeClock,
                volumeDone, volumeRead>>

\* what the handlers of the first part of the module leave alone
serviceVars == <<reqVars, fetchVars, volumeVars>>

-----------------------------------------------------------------------------
(* Optional values and small helpers *)

None == <<>>

Some(v) == <<v>>

IsDef(x) == x /= None

Val(x) == x[1]

\* a || b on optional values: the first one that is present
OrElse(a, b) == IF IsDef(a) THEN a ELSE b

E6 == 1000000

RECURSIVE SumSeq(_)
SumSeq(s) == IF s = <<>> THEN 0 ELSE Head(s) + SumSeq(Tail(s))

\* a JS number that is the quotient a / b of two counts
Quot(a, b) ==
    IF b = 0 THEN [kind |-> "NaN", num |-> 0, den |-> 0]
    ELSE [kind |-> "num", num |-> a, den |-> b]


Put(m, k, v) == [x \in (DOMAIN m) \cup {k} |-> IF x = k THEN v ELSE m[x]]

-----------------------------------------------------------------------------
(* Fee resolver: extractFeesFromReceipt, fetchFeesFromRpc (routes.ts) *)

batchSize == 10

\* Number(x || 0) / 1e6 of an optional raw amount
FeeNumber(x) == (IF IsDef(x) THEN Val(x) ELSE 0) \div E6

\* One log of a receipt is [kind, fee, trigger]: kind is the decoded eventType,
\* or "invalid" when decoding or JSON.parse throws; fee and trigger are the two
\* optional raw amounts of a fee event.
RECURSIVE ExtractFrom(_, _)
ExtractFrom(logs, acc) ==
    IF logs = <<>> THEN acc
    ELSE LET log == Head(logs)
             nxt == IF log.kind = "process_opening_fees"
                      THEN [acc EXCEPT !.openingFee = FeeNumber(log.fee),
                                       !.openingTriggerFee = FeeNumber(log.trigger)]
                    ELSE IF log.kind = "process_closing_fees"
                      THEN [acc EXCEPT !.closingFee = FeeNumber(log.fee),
                                       !.closingTriggerFee = FeeNumber(log.trigger)]
                    ELSE acc
         IN ExtractFrom(Tail(logs), nxt)

extractFeesFromReceipt(receipt) ==
    ExtractFrom(receipt, [openingFee |-> 0, closingFee |-> 0,
                          openingTriggerFee |-> 0, closingTriggerFee |-> 0])

\* The per-transaction callback of batch.map: an RPC answer is
\* [kind |-> "throw" | "null" | "found", logs]; the callback gives None (null)
\* unless a receipt was found.
FetchReceipt(tx, answer) ==
    IF answer.kind = "found"
      THEN LET fees == extractFeesFromReceipt(answer.logs)
           IN Some([tradeId |-> tx.tradeId, isOpening |-> tx.isOpening,
                    openingFee |-> fees.openingFee, closingFee |-> fees.closingFee,
                    openingTriggerFee |-> fees.openingTriggerFee,
                    closingTriggerFee |-> fees.closingTriggerFee])
    ELSE None

\* an aggregation that starts every receipt from a fresh entry
AggregateOneOverwrite(map, receipt) ==
    IF ~IsDef(receipt) THEN map
    ELSE LET r == Val(receipt)
         IN Put(map, r.tradeId,
                IF r.isOpening
                  THEN [openingFee |-> r.openingFee, closingFee |-> 0,
                        triggerFee |-> r.openingTriggerFee]
                ELSE [openingFee |-> 0, closingFee |-> r.closingFee,
                      triggerFee |-> r.closingTriggerFee])

\* "Aggregate fees by trade ID" for one entry of receipts
AggregateOne(map, receipt) ==
    IF ~IsDef(receipt) THEN map
    ELSE LET r == Val(receipt)
             existing == IF r.tradeId \in DOMAIN map THEN map[r.tradeId]
                         ELSE [openingFee |-> 0, closingFee |-> 0, triggerFee |-> 0]
             updated == IF r.isOpening
                          THEN [existing EXCEPT !.openingFee = r.openingFee,
                                                !.triggerFee = @ + r.openingTriggerFee]
                        ELSE [existing EXCEPT !.closingFee = r.closingFee,
                                              !.triggerFee = @ + r.closingTriggerFee]
         IN Put(map, r.tradeId, updated)

RECURSIVE AggregateFees(_, _)
AggregateFees(map, receipts) ==
    IF receipts = <<>> THEN map
    ELSE AggregateFees(AggregateOne(map, Head(receipts)), Tail(receipts))

openingTypes == {"position_opened"}

closingTypes == {"position_closed_user", "position_closed_sl",
                 "position_closed_tp", "position_liquidated"}

\* txHashesForFees, then validTxs: the history items that carry a hash and are
\* opening or closing events, in change-log order
RECURSIVE CollectTxHashes(_)
CollectTxHashes(history) ==
    IF history = <<>> THEN <<>>
    ELSE LET item == Head(history)
             rest == CollectTxHashes(Tail(history))
         IN IF IsDef(item.evmTxHash) /\ item.tradeChangeType \in openingTypes
              THEN <<[tradeId |-> item.trade.id, evmTxHash |-> Val(item.evmTxHash),
                      isOpening |-> TRUE]>> \o rest
            ELSE IF IsDef(item.evmTxHash) /\ item.tradeChangeType \in closingTypes
              THEN <<[tradeId |-> item.trade.id, evmTxHash |-> Val(item.evmTxHash),
                      isOpening |-> FALSE]>> \o rest
            ELSE rest

-----------------------------------------------------------------------------
(* Conversion of upstream records to Trade (routes.ts) *)

\* A Trade with every optional field absent.  leverage, openPrice and
\* closePrice are copied through from the GraphQL records and stay absent in the
\* GraphQL path of the model; the log-scan path sets them.
BlankTrade ==
    [txHash |-> <<>>, timestamp |-> 0, type |-> "close", direction |-> None,
     leverage |-> None, collateral |-> None, tradeIndex |-> None,
     openPrice |-> None, closePrice |-> None, pair |-> None,
     openTimestamp |-> None, closeTimestamp |-> None,
     openingFee |-> None, closingFee |-> None, triggerFee |-> None,
     borrowingFee |-> None, totalFees |-> None, fees |-> None,
     profitPct |-> None, pnlAmount |-> None, amountReceived |-> None]

\* pnlMap: the last close-type change-log entry with a realized percentage wins
RECURSIVE BuildPnlMap(_, _)
BuildPnlMap(map, history) ==
    IF history = <<>> THEN map
    ELSE LET item == Head(history)
             nxt == IF item.tradeChangeType \in closingTypes /\ IsDef(item.realizedPnlPct)
                      THEN Put(map, item.trade.id,
                               [pnlPct |-> Val(item.realizedPnlPct),
                                pnlAmount |-> (IF IsDef(item.realizedPnlCollateral)
                                                 THEN Val(item.realizedPnlCollateral)
                                               ELSE 0) \div E6])
                    ELSE map
         IN BuildPnlMap(nxt, Tail(history))

\* convertTrade, lines 390-392: the timestamp of the entry; clock is new Date()
TradeTimestamp(perpTrade, clock) ==
    IF perpTrade.isOpen
      THEN Val(OrElse(perpTrade.openBlock, Some(clock)))
    ELSE Val(OrElse(perpTrade.closeBlock, OrElse(perpTrade.openBlock, Some(clock))))

\* a conversion that drops the isOpen test
TradeTypeAlwaysClose(perpTrade) == "close"

\* convertTrade, line 397
TradeType(perpTrade) == IF perpTrade.isOpen THEN "open" ELSE "close"

\* fee fields whose total is set from the fee map only
WithFeesMapOnly(t, perpTrade, fMap) ==
    LET t1 == IF perpTrade.id \in DOMAIN fMap
                THEN LET fees == fMap[perpTrade.id]
                     IN [t EXCEPT !.openingFee = Some(fees.openingFee),
                                  !.closingFee = Some(fees.closingFee),
                                  !.triggerFee = Some(fees.triggerFee),
                                  !.totalFees = Some(fees.openingFee + fees.closingFee
                                                     + fees.triggerFee)]
              ELSE t
    IN IF IsDef(perpTrade.state)
         THEN [t1 EXCEPT !.borrowingFee =
                             Some(Val(perpTrade.state).borrowingFeeCollateral \div E6)]
       ELSE t1

\* convertTrade, lines 408-426: the fee fields
WithFees(t, perpTrade, fMap) ==
    LET t1 == IF perpTrade.id \in DOMAIN fMap
                THEN LET fees == fMap[perpTrade.id]
                     IN [t EXCEPT !.openingFee = Some(fees.openingFee),
                                  !.closingFee = Some(fees.closingFee),
                                  !.triggerFee = Some(fees.triggerFee),
                                  !.totalFees = Some(fees.openingFee + fees.closingFee
                                                     + fees.triggerFee)]
              ELSE t
    IN IF IsDef(perpTrade.state)
         THEN LET borrowingFee == Val(perpTrade.state).borrowingFeeCollateral \div E6
              IN [t1 EXCEPT !.borrowingFee = Some(borrowingFee),
                            !.totalFees = IF IsDef(t1.totalFees)
                                            THEN Some(Val(t1.totalFees) + borrowingFee)
                                          ELSE Some(borrowingFee)]
       ELSE t1

\* convertTrade, lines 428-446: the P&L fields of a closed trade
WithPnl(t, perpTrade, pMap) ==
    IF perpTrade.isOpen THEN t
    ELSE LET t1 == IF IsDef(perpTrade.state)
                     THEN [t EXCEPT !.profitPct = Some(Val(perpTrade.state).pnlPct),
                                    !.pnlAmount =
                                        Some(Val(perpTrade.state).pnlCollateralAfterFees \div E6)]
                   ELSE IF perpTrade.id \in DOMAIN pMap
                     THEN [t EXCEPT !.profitPct = Some(pMap[perpTrade.id].pnlPct),
                                    !.pnlAmount = Some(pMap[perpTrade.id].pnlAmount)]
                   ELSE t
         IN IF IsDef(t1.collateral) /\ IsDef(t1.pnlAmount)
              THEN [t1 EXCEPT !.amountReceived = Some(Val(t1.collateral) + Val(t1.pnlAmount))]
            ELSE t1

\* perpBorrowing?.baseToken?.symbol || "Unknown" (routes.ts 398): the relation
\* is absent from a record of the reduced query and null for an orphaned market
PairOf(record) ==
    IF "perpBorrowing" \in DOMAIN record /\ IsDef(record.perpBorrowing)
      THEN Val(record.perpBorrowing)
    ELSE "Unknown"

convertTrade(perpTrade, pMap, fMap, clock) ==
    LET t0 == [BlankTrade EXCEPT
                 !.txHash = <<"trade", perpTrade.id>>,
                 !.timestamp = TradeTimestamp(perpTrade, clock),
                 !.type = TradeType(perpTrade),
                 !.pair = Some(PairOf(perpTrade)),
                 !.direction = Some(IF perpTrade.isLong THEN "long" ELSE "short"),
                 !.collateral = Some(perpTrade.openCollateralAmount \div E6),
                 !.tradeIndex = Some(ToString(perpTrade.id)),
                 !.openTimestamp = perpTrade.openBlock,
                 !.closeTimestamp = perpTrade.closeBlock]
    IN WithPnl(WithFees(t0, perpTrade, fMap), perpTrade, pMap)

\* convertTradeHistoryItem: None for an entry that is not a close event
convertTradeHistoryItem(item) ==
    IF item.tradeChangeType \notin closingTypes THEN None
    ELSE LET t0 == [BlankTrade EXCEPT
                      !.txHash = <<"history", item.id>>,
                      !.timestamp = item.block_ts,
                      !.type = "close",
                      !.pair = Some(PairOf(item.trade)),
                      !.direction = Some(IF item.trade.isLong THEN "long" ELSE "short"),
                      !.tradeIndex = Some(ToString(item.trade.id)),
                      !.profitPct = item.realizedPnlPct,
                      !.pnlAmount = IF IsDef(item.realizedPnlCollateral)
                                      THEN Some(Val(item.realizedPnlCollateral) \div E6)
                                    ELSE None]
         IN Some(IF IsDef(t0.collateral) /\ IsDef(t0.pnlAmount)
                   THEN [t0 EXCEPT !.amountReceived =
                                       Some(Val(t0.collateral) + Val(t0.pnlAmount))]
                 ELSE t0)

-----------------------------------------------------------------------------
(* Merge, sort and statistics of GET /api/trades (routes.ts) *)

\* lines 575-580: every point-in-time record is converted and pushed
RECURSIVE SeedFromTrades(_, _, _, _)
SeedFromTrades(pts, pMap, fMap, clock) ==
    IF pts = <<>> THEN [list |-> <<>>, seen |-> {}]
    ELSE LET rest == SeedFromTrades(Tail(pts), pMap, fMap, clock)
         IN [list |-> <<convertTrade(Head(pts), pMap, fMap, clock)>> \o rest.list,
             seen |-> {Head(pts).id} \cup rest.seen]

\* a second loop that forgets the seen-identity test
AddFromHistoryUnseen(acc, item) ==
    LET t == convertTradeHistoryItem(item)
    IN IF IsDef(t)
         THEN [list |-> Append(acc.list, Val(t)), seen |-> acc.seen \cup {item.trade.id}]
       ELSE acc

\* lines 584-590: one change-log entry against the list built so far
AddFromHistory(acc, item) ==
    IF item.trade.id \in acc.seen THEN acc
    ELSE LET t == convertTradeHistoryItem(item)
         IN IF IsDef(t)
              THEN [list |-> Append(acc.list, Val(t)),
                    seen |-> acc.seen \cup {item.trade.id}]
            ELSE acc

RECURSIVE LayerHistory(_, _)
LayerHistory(acc, history) ==
    IF history = <<>> THEN acc
    ELSE LayerHistory(AddFromHistory(acc, Head(history)), Tail(history))

\* an insertion that puts a trade before the trades of its own timestamp
RECURSIVE InsertDescBeforeTies(_, _)
InsertDescBeforeTies(sorted, t) ==
    IF sorted = <<>> THEN <<t>>
    ELSE IF Head(sorted).timestamp > t.timestamp
      THEN <<Head(sorted)>> \o InsertDescBeforeTies(Tail(sorted), t)
    ELSE <<t>> \o sorted

\* Array.prototype.sort with (a, b) => time(b) - time(a): stable, descending
RECURSIVE InsertDesc(_, _)
InsertDesc(sorted, t) ==
    IF sorted = <<>> THEN <<t>>
    ELSE IF Head(sorted).timestamp >= t.timestamp
      THEN <<Head(sorted)>> \o InsertDesc(Tail(sorted), t)
    ELSE <<t>> \o sorted

RECURSIVE SortDesc(_, _)
SortDesc(sorted, rest) ==
    IF rest = <<>> THEN sorted
    ELSE SortDesc(InsertDesc(sorted, Head(rest)), Tail(rest))

\* lines 559-594: pnlMap, both loops, the sort
MergeAndSort(pts, history, fMap, clock) ==
    LET pMap == BuildPnlMap(<<>>, history)
        seeded == SeedFromTrades(pts, pMap, fMap, clock)
        merged == LayerHistory(seeded, history)
    IN SortDesc(<<>>, merged.list)

\* a filter that forgets the profitPct test
IsStatTradeAnyClose(t) == t.type = "close"

\* line 597 (and home.tsx 492): the trades that enter the statistics
IsStatTrade(t) == t.type = "close" /\ IsDef(t.profitPct)

CloseTrades(ts) == SelectSeq(ts, IsStatTrade)

IsWin(t) == (IF IsDef(t.profitPct) THEN Val(t.profitPct) ELSE 0) > 0

\* line 598
Wins(ts) == Len(SelectSeq(CloseTrades(ts), IsWin))

\* a win rate without the empty-list guard
WinRateUnguarded(ts) == Quot(Wins(ts), Len(CloseTrades(ts)))

\* line 599
WinRate(ts) ==
    IF Len(CloseTrades(ts)) > 0 THEN Quot(Wins(ts), Len(CloseTrades(ts)))
    ELSE Quot(0, 1)

ProfitOrZero(t) == IF IsDef(t.profitPct) THEN Val(t.profitPct) ELSE 0

\* line 600
TotalPnl(ts) ==
    LET closeTrades == CloseTrades(ts)
    IN SumSeq([i \in 1..Len(closeTrades) |-> ProfitOrZero(closeTrades[i])])

\* a handler that answers 404 for a trader without trades
TradesResponseOrNotFound(ts) ==
    IF ts = <<>> THEN [status |-> 404, totalPnl |-> 0, winRate |-> Quot(0, 1),
                       totalTrades |-> 0]
    ELSE [status |-> 200, totalPnl |-> TotalPnl(ts), winRate |-> WinRate(ts),
          totalTrades |-> Len(ts)]

\* lines 602-609
TradesResponse(ts) ==
    [status |-> 200, totalPnl |-> TotalPnl(ts), winRate |-> WinRate(ts),
     totalTrades |-> Len(ts)]

NoResponse == [status |-> 0, totalPnl |-> 0, winRate |-> Quot(0, 1), totalTrades |-> 0]

-----------------------------------------------------------------------------
(* GET /api/positions (routes.ts) *)

IsOpenTrade(t) == t.isOpen

\* lines 658-674
ToOpenPosition(t, clock) ==
    [tradeId |-> t.id,
     direction |-> IF t.isLong THEN "long" ELSE "short",
     collateral |-> t.openCollateralAmount \div E6,
     openedAt |-> Val(OrElse(t.openBlock, Some(clock)))]

\* lines 654-674
OpenPositions(pts, clock) ==
    LET openTrades == SelectSeq(pts, IsOpenTrade)
    IN [i \in 1..Len(openTrades) |-> ToOpenPosition(openTrades[i], clock)]

-----------------------------------------------------------------------------
(* Upstream data: the bounded sets the requests are checked over *)

\* at most this many upstream records (point-in-time plus change-log) per request
MaxRecords == 3

\* the clock advances at most this many times between two reconciliations
MaxTicks == 1

TradeIds == {1, 2}

BlockTimes == {1, 2}

\* the request arrives after every block it can see
StartClock == Cardinality(BlockTimes) + 1

\* trades { state { ... } } of a point-in-time record
TradeState(pct, pnl, borrowing) ==
    [pnlPct |-> pct, pnlCollateralAfterFees |-> pnl * E6,
     borrowingFeeCollateral |-> borrowing * E6]

\* PerpTrade records: an open trade has no closeBlock
PerpTradeSet(openBlocks, closeBlocks, states) ==
    {t \in [id : TradeIds, isOpen : BOOLEAN, isLong : BOOLEAN,
            openCollateralAmount : {100 * E6},
            openBlock : openBlocks, closeBlock : closeBlocks \cup {None}, state : states] :
        /\ t.isLong = (t.id = 1)
        /\ t.isOpen => t.closeBlock = None
        /\ ~t.isOpen => t.closeBlock \in closeBlocks}

\* TradeHistoryItem records; id is the row id, given by Numbered
HistoryItemSet(types, hashes, times, pnls) ==
    {[id |-> 0, tradeChangeType |-> ty, evmTxHash |-> h, block_ts |-> ts,
      trade |-> [id |-> i, isLong |-> (i = 1)],
      realizedPnlPct |-> p[1], realizedPnlCollateral |-> p[2]] :
        ty \in types, h \in hashes, ts \in times, i \in TradeIds, p \in pnls}

Numbered(history) == [k \in 1..Len(history) |-> [history[k] EXCEPT !.id = k]]

\* the pairs (point-in-time list, change-log) of at most MaxRecords records
InputPairs(T, H) ==
    UNION {[1..ab[1] -> T] \X [1..ab[2] -> H] :
             ab \in {x \in (0..MaxRecords) \X (0..MaxRecords) : x[1] + x[2] <= MaxRecords}}

TxHashesOf(history) ==
    LET txs == CollectTxHashes(history) IN {txs[k].evmTxHash : k \in 1..Len(txs)}

\* a fee-bearing log of a receipt
FeeLog(kind, fee, trigger) == [kind |-> kind, fee |-> fee, trigger |-> trigger]

NotFound == [kind |-> "null", logs |-> <<>>]

Failed == [kind |-> "throw", logs |-> <<>>]

Found(logs) == [kind |-> "found", logs |-> logs]

InitApi(T, H, A) ==
    /\ \E io \in InputPairs(T, H) :
          /\ perpTrades = io[1]
          /\ tradeHistory = Numbered(io[2])
    /\ rpcReceipts \in [TxHashesOf(tradeHistory) -> A]
    /\ now = StartClock
    /\ pc = "start"
    /\ validTxs = <<>>
    /\ feeI = 0
    /\ feeMap = <<>>
    /\ trades = <<>>
    /\ response = NoResponse
    /\ firstTrades = None
    /\ run = 1
    /\ positions = None

\* the state of the GraphQL path while only the log-scan runs
ApiIdle ==
    /\ perpTrades = <<>>
    /\ tradeHistory = <<>>
    /\ rpcReceipts = <<>>
    /\ now = StartClock
    /\ pc = "idle"
    /\ validTxs = <<>>
    /\ feeI = 0
    /\ feeMap = <<>>
    /\ trades = <<>>
    /\ response = NoResponse
    /\ firstTrades = None
    /\ run = 1
    /\ positions = None

\* the state of the log-scan while only the GraphQL path runs
ChainIdle ==
    /\ fromBlock = 0
    /\ toBlock = 0
    /\ chainLogs = {}
    /\ start = 0
    /\ issued = <<>>
    /\ allLogs = <<>>
    /\ skipped = {}
    /\ matchingTxHashes = <<>>
    /\ txLogsMap = <<>>
    /\ scanTrades = <<>>
    /\ chunkPc = "idle"

ParseIdle ==
    /\ eventInput = None
    /\ eventParsed = None

ScanIdle ==
    /\ txLogs = <<>>
    /\ logIdx = 0
    /\ trade = BlankTrade
    /\ scanPc = "idle"
    /\ ChainIdle
    /\ ParseIdle

\* no request is being validated or queried
ReqIdle ==
    /\ req = None
    /\ gqlAnswers = None
    /\ gqlCalls = [primary |-> 0, fallback |-> 0]

\* fetchFeesFromRpc taken batch by batch: no single request is tracked
FetchIdle ==
    /\ inFlight = {}
    /\ results = <<>>

\* the volume cache as the module is loaded, nothing scheduled
VolumeIdle ==
    /\ volumeCache = <<>>
    /\ volumeData = <<>>
    /\ volumeRuns = {}
    /\ volumeTimer = None
    /\ volumeClock = 0
    /\ volumeDone = {}
    /\ volumeRead = None

ServiceIdle == ReqIdle /\ FetchIdle /\ VolumeIdle

-----------------------------------------------------------------------------
(* GET /api/trades, step by step (routes.ts 516-611) *)

\* lines 516-556, 281-284: both queries answered, the hashes are collected
StartRequest ==
    /\ pc = "start"
    /\ validTxs' = CollectTxHashes(tradeHistory)
    /\ feeI' = 0
    /\ feeMap' = <<>>
    /\ pc' = "fees"
    /\ UNCHANGED <<perpTrades, tradeHistory, rpcReceipts, now, trades, response,
                   firstTrades, run, positions>>
    /\ UNCHANGED <<scanVars, serviceVars>>

\* lines 288-330: one batch of receipts is awaited and aggregated
FetchFeeBatch ==
    /\ pc = "fees"
    /\ feeI < Len(validTxs)
    /\ LET last == IF feeI + batchSize < Len(validTxs) THEN feeI + batchSize
                   ELSE Len(validTxs)
           batch == SubSeq(validTxs, feeI + 1, last)
           receipts == [k \in 1..Len(batch) |->
                          FetchReceipt(batch[k], rpcReceipts[batch[k].evmTxHash])]
       IN feeMap' = AggregateFees(feeMap, receipts)
    /\ feeI' = feeI + batchSize
    /\ UNCHANGED <<perpTrades, tradeHistory, rpcReceipts, now, pc, validTxs, trades,
                   response, firstTrades, run, positions>>
    /\ UNCHANGED <<scanVars, serviceVars>>

\* lines 559-594: the fee map is complete; convert, merge, sort
Reconcile ==
    /\ pc = "fees"
    /\ feeI >= Len(validTxs)
    /\ trades' = MergeAndSort(perpTrades, tradeHistory, feeMap, now)
    /\ pc' = "stats"
    /\ UNCHANGED <<perpTrades, tradeHistory, rpcReceipts, now, validTxs, feeI, feeMap,
                   response, firstTrades, run, positions>>
    /\ UNCHANGED <<scanVars, serviceVars>>

\* lines 596-611
ComputeStats ==
    /\ pc = "stats"
    /\ response' = TradesResponse(trades)
    /\ pc' = "done"
    /\ UNCHANGED <<perpTrades, tradeHistory, rpcReceipts, now, validTxs, feeI, feeMap,
                   trades, firstTrades, run, positions>>
    /\ UNCHANGED <<scanVars, serviceVars>>

\* GET /api/positions, lines 638-687: the same point-in-time list is queried; the
\* upstream answers with data or with errors.  The two handlers share no state,
\* so the request is taken once /api/trades has answered.
GetPositions ==
    /\ pc = "done"
    /\ positions = None
    /\ \E errors \in BOOLEAN :
          positions' = IF errors THEN Some([status |-> 500, positions |-> <<>>])
                       ELSE Some([status |-> 200,
                                  positions |-> OpenPositions(perpTrades, now)])
    /\ UNCHANGED <<perpTrades, tradeHistory, rpcReceipts, now, pc, validTxs, feeI,
                   feeMap, trades, response, firstTrades, run>>
    /\ UNCHANGED <<scanVars, serviceVars>>

\* The same adapter outputs and fee map are reconciled a second time
Again ==
    /\ pc = "done"
    /\ run = 1
    /\ firstTrades' = Some(trades)
    /\ run' = 2
    /\ pc' = "fees"
    /\ UNCHANGED <<perpTrades, tradeHistory, rpcReceipts, now, validTxs, feeI, feeMap,
                   trades, response, positions>>
    /\ UNCHANGED <<scanVars, serviceVars>>

\* Time passes between the two reconciliations
Tick ==
    /\ pc = "done"
    /\ run = 1
    /\ now < StartClock + MaxTicks
    /\ now' = now + 1
    /\ UNCHANGED <<perpTrades, tradeHistory, rpcReceipts, pc, validTxs, feeI, feeMap,
                   trades, response, firstTrades, run, positions>>
    /\ UNCHANGED <<scanVars, serviceVars>>

ApiNext == StartRequest \/ FetchFeeBatch \/ Reconcile \/ ComputeStats \/ GetPositions

-----------------------------------------------------------------------------
(* Specification of the merge: identities, open and closed trades *)

MergeTradeSet == PerpTradeSet({None, Some(1)}, {None, Some(2)}, {None})

MergeHistorySet ==
    HistoryItemSet({"position_opened", "position_closed_user"}, {None, Some("0xa")},
                   {2}, {<<Some(5), Some(50 * E6)>>})

Init == InitApi(MergeTradeSet, MergeHistorySet, {NotFound}) /\ ScanIdle /\ ServiceIdle

Next == ApiNext

Spec == Init /\ [][Next]_vars

\* the handler has built its list
Answered == pc \in {"stats", "done"}

Indices(seq) == 1..Len(seq)

\* C1: the trade list returned by /api/trades holds no two entries with the same
\* trade identity (tradeIndex), whatever the two upstream lists are.
C1_NoDuplicateIdentity ==
    Answered =>
        \A i, j \in Indices(trades) :
            i /= j => trades[i].tradeIndex /= trades[j].tradeIndex

\* the ids that have only open point-in-time records and no closing event
OpenOnlyIds ==
    {id \in TradeIds :
        /\ \E k \in Indices(perpTrades) : perpTrades[k].id = id
        /\ \A k \in Indices(perpTrades) : perpTrades[k].id = id => perpTrades[k].isOpen
        /\ \A k \in Indices(tradeHistory) :
              tradeHistory[k].trade.id = id
                  => tradeHistory[k].tradeChangeType \notin closingTypes}

-----------------------------------------------------------------------------
(* Specification of two reconciliations of the same inputs *)

TwiceHistorySet ==
    HistoryItemSet({"position_closed_user"}, {Some("0xa")}, {2},
                   {<<Some(5), Some(50 * E6)>>})

\* the point-in-time lists that hold every id once
InitTwice ==
    /\ InitApi(MergeTradeSet, TwiceHistorySet, {NotFound})
    /\ \A i, j \in Indices(perpTrades) : i /= j => perpTrades[i].id /= perpTrades[j].id
    /\ ScanIdle
    /\ ServiceIdle

NextTwice == ApiNext \/ Again \/ Tick

SpecTwice == InitTwice /\ [][NextTwice]_vars

\* C6: reconciling the same adapter outputs and fee map twice yields the same
\* list: same identities, same order, same value in every field, no duplicate.
C6_Idempotent ==
    (run = 2 /\ Answered) =>
        /\ trades = Val(firstTrades)
        /\ \A i, j \in Indices(trades) :
              i /= j => trades[i].tradeIndex /= trades[j].tradeIndex

-----------------------------------------------------------------------------
(* Specification of the statistics: realized and missing P&L *)

StatsTradeSet ==
    PerpTradeSet({Some(1)}, {Some(2)},
                 {None, Some(TradeState(3, 30, 1)), Some(TradeState(-3, -30, 1))})

StatsHistorySet ==
    HistoryItemSet({"position_opened", "position_closed_user"}, {Some("0xa")}, {2},
                   {<<None, None>>, <<Some(0), None>>, <<Some(5), Some(50 * E6)>>})

InitStats ==
    InitApi(StatsTradeSet, StatsHistorySet, {NotFound}) /\ ScanIdle /\ ServiceIdle

SpecStats == InitStats /\ [][Next]_vars

\* C4: 0 <= winRate <= 1, and winRate is the number 0 (no NaN, no division
\* error) when no trade of the list has a defined profitPct.
C4_WinRateBounds ==
    pc = "done" =>
        /\ response.winRate.kind = "num"
        /\ response.winRate.den > 0
        /\ 0 <= response.winRate.num
        /\ response.winRate.num <= response.winRate.den
        /\ (\A k \in Indices(trades) : ~IsDef(trades[k].profitPct))
              => response.winRate.num = 0

\* a non-empty list without any defined profitPct has been answered
C4_Witness ==
    /\ pc = "done"
    /\ Len(trades) > 1
    /\ \A k \in Indices(trades) : ~IsDef(trades[k].profitPct)

\* the sum of profitPct over the list positions S
RECURSIVE SumProfitAt(_)
SumProfitAt(S) ==
    IF S = {} THEN 0
    ELSE LET x == CHOOSE y \in S : TRUE
         IN Val(trades[x].profitPct) + SumProfitAt(S \ {x})

\* the closed trades with a defined profitPct, by position in the list
Counted == {k \in Indices(trades) : trades[k].type = "close" /\ IsDef(trades[k].profitPct)}

\* C5: winRate = (closed trades with profitPct > 0) / (closed trades with a defined
\* profitPct) and totalPnl is the sum of profitPct over exactly those trades; open
\* trades and closed trades of undefined profitPct change none of the three.
C5_StatsOverDefinedClosed ==
    pc = "done" =>
        LET winners == {k \in Counted : Val(trades[k].profitPct) > 0}
        IN /\ response.winRate.kind = "num"
           /\ Counted /= {} =>
                 response.winRate.num * Cardinality(Counted)
                     = Cardinality(winners) * response.winRate.den
           /\ Counted = {} => response.winRate.num = 0
           /\ response.totalPnl = SumProfitAt(Counted)
           /\ response.totalTrades = Len(trades)

\* a win is counted beside an open trade and a closed trade of unknown P&L
C5_Witness ==
    /\ pc = "done"
    /\ \E k \in Counted : Val(trades[k].profitPct) > 0
    /\ \E k \in Indices(trades) : trades[k].type = "open"
    /\ \E k \in Indices(trades) : trades[k].type = "close" /\ ~IsDef(trades[k].profitPct)

-----------------------------------------------------------------------------
(* Specification of the fee overlay: receipts found, pruned or failing *)

FeesTradeSet == PerpTradeSet({Some(1)}, {Some(2)}, {None})

FeesHistorySet ==
    HistoryItemSet({"position_opened", "position_closed_user"},
                   {None, Some("0xa"), Some("0xb")}, {2}, {<<Some(5), Some(50 * E6)>>})

\* the receipt of an opening transaction: one undecodable log, then the fee event
OpeningReceipt ==
    <<FeeLog("invalid", None, None),
      FeeLog("process_opening_fees", Some(3 * E6), Some(1 * E6))>>

\* the receipt of a closing transaction: the fee event, then another event
ClosingReceipt ==
    <<FeeLog("process_closing_fees", Some(2 * E6), None),
      FeeLog("handle_trade_pnl", None, None)>>

FeesAnswerSet == {NotFound, Failed, Found(OpeningReceipt), Found(ClosingReceipt)}

InitFees ==
    InitApi(FeesTradeSet, FeesHistorySet, FeesAnswerSet) /\ ScanIdle /\ ServiceIdle

SpecFees == InitFees /\ [][Next]_vars

\* the opening transactions of trade id, as collected from the change-log
OpeningTxsOf(id) ==
    {k \in Indices(validTxs) : validTxs[k].tradeId = id /\ validTxs[k].isOpening}

\* every opening receipt of trade id came back "not found" or failed
OpeningReceiptMissing(id) ==
    /\ OpeningTxsOf(id) /= {}
    /\ \A k \in OpeningTxsOf(id) :
          rpcReceipts[validTxs[k].evmTxHash].kind \in {"null", "throw"}

\* C9: a trade whose opening-transaction receipt is not found (or whose lookup
\* fails) has openingFee undefined, not 0, and totalFees undefined, not a lower
\* partial sum, whatever else of the trade was resolved.
C9_MissingReceiptFeeUnknown ==
    Answered =>
        \A k \in Indices(trades) :
            \A id \in TradeIds :
                (trades[k].tradeIndex = Some(ToString(id)) /\ OpeningReceiptMissing(id))
                    => ~IsDef(trades[k].openingFee) /\ ~IsDef(trades[k].totalFees)

-----------------------------------------------------------------------------
(* Log-scan: replay of the decoded logs of one transaction                 *)
(* (getAddressTransactions, schema.ts 2011-2167)                           *)
(*                                                                         *)
(* A decoded log (parsedData) is a record of optional fields.  Amount      *)
(* fields hold the number parseFloat gives for the raw string, profit_pct  *)
(* the percentage in hundredths, long and open the JSON value as text      *)
(* ("true", "false", or "bool:true", "bool:false" for a JSON boolean).     *)

\* the substrings getAddressTransactions looks for in a lower-cased eventType
Patterns(eventType) ==
    CASE eventType = "wasm-sai/perp/register_trade" -> {"register_trade"}
      [] eventType = "wasm-sai/perp/trigger_trade/register_trade" ->
             {"register_trade", "trigger_trade/register_trade"}
      [] eventType = "wasm-sai/perp/open_trade" -> {"open_trade"}
      [] eventType = "wasm-sai/perp/user_close_order" ->
             {"close_order", "user_close", "user_close_order"}
      [] eventType = "wasm-sai/perp/close_order" -> {"close_order"}
      [] eventType = "wasm-sai/perp/pending_order_type" -> {"pending_order_type"}
      [] eventType = "wasm-sai/perp/handle_trade_pnl" -> {"handle_trade_pnl"}
      [] eventType = "wasm-sai/perp/handle_trade_borrowing" -> {"handle_trade_borrowing"}
      [] eventType = "wasm-sai/perp/process_closing_fees" -> {"process_closing_fees"}
      [] eventType = "wasm-sai/perp/unregister_trade" ->
             {"unregister_trade", "register_trade"}
      [] eventType = "wasm-sai/perp/update_pair_oi" -> {"update_pair_oi"}
      [] eventType = "wasm-sai/perp/update_group_oi" -> {"update_group_oi"}
      [] OTHER -> {}

\* eventType.includes(pattern)
Includes(ev, pattern) == pattern \in Patterns(ev.eventType)

\* eventData.long === "true" || eventData.long === true
DirectionOf(long) == IF long \in {"true", "bool:true"} THEN "long" ELSE "short"

\* a number field of the Trade is truthy when present and not 0
Truthy(x) == IsDef(x) /\ Val(x) /= 0

\* (a - b) / b in hundredths; the amounts are whole multiples of E6, so
\* b \div 100 is exact
Ratio(a, b) == (a - b) \div (b \div 100)

\* an event of the given type with no field set
Ev(eventType) ==
    [eventType |-> eventType, open_price |-> None, long |-> None, leverage |-> None,
     collateral |-> None, position_size_collateral |-> None, trade_index |-> None,
     close_price |-> None, profit_pct |-> None, pending_order_type |-> None,
     collateral_sent_to_trader |-> None, available_collateral |-> None,
     action |-> None, final_closing_fee |-> None, final_trigger_fee |-> None,
     collateral_left |-> None, trade_value_collateral |-> None,
     collateral_left_in_storage |-> None, vault_closing_fee |-> None,
     trigger_fee_collateral |-> None, gov_fee |-> None, open |-> None]

\* lines 2024-2043: open trade event
IsOpenEvent(ev) ==
    \/ Includes(ev, "register_trade")
    \/ Includes(ev, "open_trade")
    \/ Includes(ev, "trigger_trade/register_trade")

OnOpen(t, ev) ==
    IF ~IsOpenEvent(ev) THEN t
    ELSE [t EXCEPT
            !.type = "open",
            !.openPrice = OrElse(ev.open_price, @),
            !.direction = IF IsDef(ev.long) THEN Some(DirectionOf(Val(ev.long))) ELSE @,
            !.leverage = OrElse(ev.leverage, @),
            !.collateral = OrElse(ev.collateral, OrElse(ev.position_size_collateral, @)),
            !.tradeIndex = OrElse(ev.trade_index, @)]

\* lines 2045-2064: close_order / user_close
OnCloseOrder(t, ev) ==
    IF ~(Includes(ev, "close_order") \/ Includes(ev, "user_close")) THEN t
    ELSE [t EXCEPT
            !.type = "close",
            !.closePrice = OrElse(ev.close_price, @),
            !.profitPct = OrElse(ev.profit_pct, @)]

\* lines 2066-2076: user_close_order
OnUserCloseOrder(t, ev) ==
    IF ~Includes(ev, "user_close_order") THEN t
    ELSE [t EXCEPT
            !.type = "close",
            !.closePrice = OrElse(ev.close_price, @),
            !.profitPct = OrElse(ev.profit_pct, @)]

\* lines 2078-2087: market close order (fallback)
OnMarketClose(t, ev) ==
    IF ~(Includes(ev, "pending_order_type")
           /\ ev.pending_order_type = Some("market_close")) THEN t
    ELSE [t EXCEPT
            !.type = "close",
            !.closePrice = IF IsDef(ev.close_price) /\ ~Truthy(@) THEN ev.close_price ELSE @,
            !.profitPct = IF IsDef(ev.profit_pct) /\ ~IsDef(@) THEN ev.profit_pct ELSE @]

\* lines 2089-2101: handle_trade_pnl
OnHandleTradePnl(t, ev) ==
    IF ~Includes(ev, "handle_trade_pnl") THEN t
    ELSE [t EXCEPT
            !.pnlAmount = OrElse(ev.collateral_sent_to_trader, @),
            !.collateral = IF IsDef(ev.available_collateral) /\ ~Truthy(@)
                             THEN ev.available_collateral ELSE @,
            !.type = IF ev.action = Some("SendToTrader") THEN "close" ELSE @]

\* lines 2103-2108: handle_trade_borrowing
OnHandleTradeBorrowing(t, ev) ==
    IF ~Includes(ev, "handle_trade_borrowing") THEN t
    ELSE [t EXCEPT
            !.direction = IF IsDef(ev.long) THEN Some(DirectionOf(Val(ev.long))) ELSE @]

\* lines 2110-2124: process_closing_fees
OnProcessClosingFees(t, ev) ==
    IF ~Includes(ev, "process_closing_fees") THEN t
    ELSE LET closingFee == IF IsDef(ev.final_closing_fee) THEN Val(ev.final_closing_fee) ELSE 0
             triggerFee == IF IsDef(ev.final_trigger_fee) THEN Val(ev.final_trigger_fee) ELSE 0
         IN [t EXCEPT
               !.type = "close",
               !.fees = Some(closingFee + triggerFee),
               !.collateral = IF IsDef(ev.collateral_left)
                                THEN Some(Val(ev.collateral_left) + closingFee + triggerFee)
                              ELSE @]

\* lines 2126-2148: unregister_trade
OnUnregisterTrade(t, ev) ==
    IF ~Includes(ev, "unregister_trade") THEN t
    ELSE LET totalFees ==
                 (IF IsDef(ev.vault_closing_fee) THEN Val(ev.vault_closing_fee) ELSE 0)
                 + (IF IsDef(ev.trigger_fee_collateral)
                      THEN Val(ev.trigger_fee_collateral) ELSE 0)
                 + (IF IsDef(ev.gov_fee) THEN Val(ev.gov_fee) ELSE 0)
             estimate ==
                 IF IsDef(ev.collateral_left_in_storage) /\ IsDef(ev.trade_value_collateral)
                   THEN LET originalCollateral ==
                                Val(ev.collateral_left_in_storage) + totalFees
                        IN IF originalCollateral > 0
                             THEN Some(Ratio(Val(ev.trade_value_collateral),
                                             originalCollateral))
                           ELSE None
                 ELSE None
         IN [t EXCEPT
               !.type = "close",
               !.pnlAmount = OrElse(ev.trade_value_collateral, @),
               !.tradeIndex = OrElse(ev.trade_index, @),
               !.profitPct = OrElse(estimate, @)]

\* lines 2150-2156: update_pair_oi / update_group_oi
OnUpdateOi(t, ev) ==
    IF ~(Includes(ev, "update_pair_oi") \/ Includes(ev, "update_group_oi")) THEN t
    ELSE [t EXCEPT
            !.direction = IF IsDef(ev.long) /\ ev.open = Some("false")
                            THEN Some(DirectionOf(Val(ev.long))) ELSE @]

\* lines 2018-2157: one iteration of the loop over txLogs
ApplyEvent(t, ev) ==
    OnUpdateOi(
      OnUnregisterTrade(
        OnProcessClosingFees(
          OnHandleTradeBorrowing(
            OnHandleTradePnl(
              OnMarketClose(
                OnUserCloseOrder(
                  OnCloseOrder(
                    OnOpen(t, ev), ev), ev), ev), ev), ev), ev), ev), ev)

\* lines 2159-2165: the proxy P&L when no profit_pct was seen
WithFallbackPnl(t) ==
    IF /\ t.type = "close"
       /\ ~IsDef(t.profitPct)
       /\ Truthy(t.pnlAmount)
       /\ Truthy(t.collateral)
       /\ Val(t.collateral) > 0
      THEN [t EXCEPT !.profitPct = Some(Ratio(Val(t.pnlAmount), Val(t.collateral)))]
    ELSE t

\* lines 2011-2015
NewScanTrade ==
    [BlankTrade EXCEPT !.txHash = <<"tx", "0xa">>, !.timestamp = 1, !.type = "close"]

\* lines 2018-2157: the loop body for the next log of the transaction
ReplayLog ==
    /\ scanPc = "replay"
    /\ logIdx < Len(txLogs)
    /\ logIdx' = logIdx + 1
    /\ trade' = ApplyEvent(trade, txLogs[logIdx + 1])
    /\ UNCHANGED <<txLogs, scanPc>>
    /\ UNCHANGED <<apiVars, serviceVars, chainVars, parseVars>>

\* lines 2159-2167: the proxy P&L, then trades.push(trade)
FinishTx ==
    /\ scanPc = "replay"
    /\ logIdx = Len(txLogs)
    /\ trade' = WithFallbackPnl(trade)
    /\ scanPc' = "done"
    /\ UNCHANGED <<txLogs, logIdx>>
    /\ UNCHANGED <<apiVars, serviceVars, chainVars, parseVars>>

-----------------------------------------------------------------------------
(* Specification of the log-scan replay *)

\* the longest log list of a transaction
MaxLogs == 3

\* register_trade: leverage 5, raw collateral 100 units, long "true"
OpenEv ==
    [Ev("wasm-sai/perp/register_trade") EXCEPT
        !.open_price = Some(2000), !.long = Some("true"), !.leverage = Some(5),
        !.collateral = Some(100 * E6), !.trade_index = Some("7")]

\* a triggered open of a short, the JSON carrying long as a boolean
TriggerOpenEv ==
    [Ev("wasm-sai/perp/trigger_trade/register_trade") EXCEPT
        !.long = Some("bool:false"), !.leverage = Some(2),
        !.position_size_collateral = Some(50 * E6)]

\* user_close_order with profit_pct 0.12
UserCloseEv ==
    [Ev("wasm-sai/perp/user_close_order") EXCEPT
        !.close_price = Some(2100), !.profit_pct = Some(12)]

\* close_order with profit_pct -0.07
CloseOrderEv ==
    [Ev("wasm-sai/perp/close_order") EXCEPT !.profit_pct = Some(-7)]

MarketCloseEv ==
    [Ev("wasm-sai/perp/pending_order_type") EXCEPT
        !.pending_order_type = Some("market_close"), !.close_price = Some(2200),
        !.profit_pct = Some(4)]

LimitOrderEv ==
    [Ev("wasm-sai/perp/pending_order_type") EXCEPT
        !.pending_order_type = Some("limit_open")]

PnlEv ==
    [Ev("wasm-sai/perp/handle_trade_pnl") EXCEPT
        !.collateral_sent_to_trader = Some(110 * E6),
        !.available_collateral = Some(100 * E6), !.action = Some("SendToTrader")]

BorrowingEv ==
    [Ev("wasm-sai/perp/handle_trade_borrowing") EXCEPT !.long = Some("false")]

ClosingFeesEv ==
    [Ev("wasm-sai/perp/process_closing_fees") EXCEPT
        !.final_closing_fee = Some(2 * E6), !.final_trigger_fee = Some(1 * E6),
        !.collateral_left = Some(97 * E6)]

UnregisterEv ==
    [Ev("wasm-sai/perp/unregister_trade") EXCEPT
        !.trade_value_collateral = Some(120 * E6),
        !.collateral_left_in_storage = Some(90 * E6),
        !.vault_closing_fee = Some(6 * E6), !.trigger_fee_collateral = Some(3 * E6),
        !.gov_fee = Some(1 * E6), !.trade_index = Some("7")]

PairOiEv ==
    [Ev("wasm-sai/perp/update_pair_oi") EXCEPT
        !.long = Some("false"), !.open = Some("false")]

GroupOiEv ==
    [Ev("wasm-sai/perp/update_group_oi") EXCEPT
        !.long = Some("true"), !.open = Some("true")]

\* the decoded logs a receipt may carry; every amount is a whole multiple of
\* the collaterals, so each Ratio below is exact
ScanEventSet ==
    {OpenEv, TriggerOpenEv, UserCloseEv, CloseOrderEv, MarketCloseEv, LimitOrderEv,
     PnlEv, BorrowingEv, ClosingFeesEv, UnregisterEv, PairOiEv, GroupOiEv,
     Ev("wasm-sai/perp/other")}

LogLists == UNION {[1..n -> ScanEventSet] : n \in 0..MaxLogs}

InitScan ==
    /\ ApiIdle
    /\ ServiceIdle
    /\ txLogs \in LogLists
    /\ logIdx = 0
    /\ trade = NewScanTrade
    /\ scanPc = "replay"
    /\ ChainIdle
    /\ ParseIdle

NextScan == ReplayLog \/ FinishTx

SpecScan == InitScan /\ [][NextScan]_vars

\* the logs replayed so far
Replayed == 1..logIdx

\* an event that sets the type to close: a close order, fee processing, an
\* unregister or a send-to-trader event
SetsClose(ev) == ApplyEvent([NewScanTrade EXCEPT !.type = "open"], ev).type = "close"

\* C2: once the replay of a transaction's logs has set the trade's type to
\* close, no later event of the same transaction moves it back to open.
C2_CloseIsFinal ==
    (\E k \in Replayed : SetsClose(txLogs[k])) => trade.type = "close"

\* C3: a closed trade whose collateral and pnlAmount are both defined has
\* amountReceived defined and equal to collateral + pnlAmount, also when it
\* comes from the log-scan.
C3_AmountReceivedIsSum ==
    (/\ scanPc = "done"
     /\ trade.type = "close"
     /\ IsDef(trade.collateral)
     /\ IsDef(trade.pnlAmount))
        => /\ IsDef(trade.amountReceived)
           /\ Val(trade.amountReceived) = Val(trade.collateral) + Val(trade.pnlAmount)

\* the logs are an open event with leverage, collateral and long "true",
\* followed by a user_close_order with a profit_pct
OpenThenUserClose ==
    /\ Len(txLogs) = 2
    /\ IsOpenEvent(txLogs[1])
    /\ IsDef(txLogs[1].leverage)
    /\ IsDef(txLogs[1].collateral)
    /\ txLogs[1].long = Some("true")
    /\ Includes(txLogs[2], "user_close_order")
    /\ IsDef(txLogs[2].profit_pct)

\* C7: after an open event (leverage L, raw collateral C, long "true") followed
\* by a user_close_order with profit_pct p, the trade is long, has leverage L,
\* collateral C / 1e6 and profitPct p, and is of type close.
C7_OpenThenUserCloseTrade ==
    (scanPc = "done" /\ OpenThenUserClose)
        => /\ trade.direction = Some("long")
           /\ trade.leverage = txLogs[1].leverage
           /\ IsDef(trade.collateral)
           /\ Val(trade.collateral) = Val(txLogs[1].collateral) \div E6
           /\ trade.profitPct = txLogs[2].profit_pct
           /\ trade.type = "close"

\* C10: the profit_pct of a user_close_order event is the trade's final
\* profitPct, whichever other close-type events the transaction carries and
\* in whichever order.
C10_UserCloseProfitWins ==
    scanPc = "done" =>
        \A k \in Indices(txLogs) :
            (Includes(txLogs[k], "user_close_order") /\ IsDef(txLogs[k].profit_pct))
                => trade.profitPct = txLogs[k].profit_pct

-----------------------------------------------------------------------------
(* Specification of the second merge loop: longer change-logs *)

\* the longest change-log of this specification
MaxHistory == 3

DedupHistorySet ==
    HistoryItemSet({"position_opened", "position_closed_user"}, {Some("0xa")}, {2},
                   {<<Some(5), Some(50 * E6)>>})

InitDedup ==
    /\ \E n \in 0..Cardinality(TradeIds), m \in 0..MaxHistory :
          /\ perpTrades \in [1..n -> FeesTradeSet]
          /\ tradeHistory \in {Numbered(h) : h \in [1..m -> DedupHistorySet]}
    /\ rpcReceipts = [h \in TxHashesOf(tradeHistory) |-> NotFound]
    /\ now = StartClock
    /\ pc = "start"
    /\ validTxs = <<>>
    /\ feeI = 0
    /\ feeMap = <<>>
    /\ trades = <<>>
    /\ response = NoResponse
    /\ firstTrades = None
    /\ run = 1
    /\ positions = None
    /\ ScanIdle
    /\ ServiceIdle

SpecDedup == InitDedup /\ [][Next]_vars

\* the output entries that the change-log created for trade id
FromHistory(id) ==
    {k \in Indices(trades) :
        trades[k].txHash[1] = "history" /\ trades[k].tradeIndex = Some(ToString(id))}

InPerpTrades(id) == \E i \in Indices(perpTrades) : perpTrades[i].id = id

\* the close-type change-log entries of trade id
CloseEntries(id) ==
    {k \in Indices(tradeHistory) :
        tradeHistory[k].trade.id = id /\ tradeHistory[k].tradeChangeType \in closingTypes}

\* C12: a change-log entry never adds an output entry for a trade id of the
\* point-in-time list, and an id that only the change-log knows gets at most
\* one output entry however many close-type entries it has.
C12_ChangeLogNeverDuplicates ==
    Answered =>
        \A id \in TradeIds :
            /\ InPerpTrades(id) => FromHistory(id) = {}
            /\ Cardinality(FromHistory(id)) <= 1

\* one id is in both lists with a close entry, the other only in the
\* change-log with two close entries and one output entry
C12_Witness ==
    /\ pc = "done"
    /\ \E id \in TradeIds : InPerpTrades(id) /\ CloseEntries(id) /= {}
    /\ \E id \in TradeIds :
          /\ ~InPerpTrades(id)
          /\ Cardinality(CloseEntries(id)) >= 2
          /\ Cardinality(FromHistory(id)) = 1

-----------------------------------------------------------------------------
(* Realized P&L of a closed trade known to both sources (SpecStats) *)

\* the realized P&L the change-log carries, by trade id
RealizedPnl == BuildPnlMap(<<>>, tradeHistory)

\* C13: a closed trade of the point-in-time list whose change-log has a
\* close-type entry with realized P&L is output with the change-log's
\* profitPct and pnlAmount, also when the record carries a state P&L.
C13_RealizedPnlIsAuthoritative ==
    Answered =>
        \A i \in Indices(perpTrades), k \in Indices(trades) :
            (/\ ~perpTrades[i].isOpen
             /\ perpTrades[i].id \in DOMAIN RealizedPnl
             /\ trades[k].type = "close"
             /\ trades[k].txHash = <<"trade", perpTrades[i].id>>)
                => /\ trades[k].profitPct = Some(RealizedPnl[perpTrades[i].id].pnlPct)
                   /\ trades[k].pnlAmount = Some(RealizedPnl[perpTrades[i].id].pnlAmount)

-----------------------------------------------------------------------------
(* One HTTP request: validation, then the GraphQL queries (part_002)       *)
(*                                                                         *)
(* /api/trades of part_002 is /api/trades of routes.ts with one more round *)
(* of queries, the reduced ones, when a primary query throws.              *)

\* a query string parameter that is absent is None
ValidAddress == "0x52908400098527886E0F7030069857D2E4169EE7"

AddressSet == {None, Some(ValidAddress), Some("0x123"), Some("nibi1qy352eufqy352eufqy352eufqy35")}

NetworkSet == {None, Some("mainnet"), Some("testnet"), Some("devnet")}

\* the keys of NETWORKS
NETWORKS == {"mainnet", "testnet"}

\* /^0x[a-fA-F0-9]{40}$/i.test(address)
IsEvmAddress(address) == address = ValidAddress

\* (req.query.network as string) || "mainnet"
NetworkOf(r) == Val(OrElse(r.network, Some("mainnet")))

\* what one GraphQL query is answered with: data, errors beside data, or
\* errors without data (also: no data at all)
AnswerKinds == {"data", "partial", "fail"}

\* graphqlQuery throws unless the answer carries data (part_002 716-726)
Throws(answer) == answer = "fail"

\* a Promise.all that always rejects
PrimaryThrewAlways(answers) == TRUE

\* the Promise.all of the primary queries rejects (part_002 893-905)
PrimaryThrew(answers) == Throws(answers.primaryTrades) \/ Throws(answers.primaryHistory)

\* the Promise.all of the reduced queries rejects (part_002 907-918)
FallbackThrew(answers) == Throws(answers.fallbackTrades) \/ Throws(answers.fallbackHistory)

\* a point-in-time record as the primary query returns it
WithRelation(t, relation) ==
    [f \in DOMAIN t \cup {"perpBorrowing"} |->
        IF f = "perpBorrowing" THEN relation ELSE t[f]]

\* the same record as the reduced query returns it
WithoutRelation(t) == [f \in DOMAIN t \ {"perpBorrowing"} |-> t[f]]

\* the longest point-in-time list of a request of this specification
MaxRequestTrades == 1

RequestTradeSet ==
    {WithRelation(t, relation) :
        t \in {x \in FeesTradeSet : x.isOpen = (x.id = 2)},
        relation \in {None, Some("BTC")}}

RequestHistorySet ==
    HistoryItemSet({"position_closed_user"}, {Some("0xa")}, {2},
                   {<<Some(5), Some(50 * E6)>>})

RequestSet ==
    {r \in [endpoint : {"trades", "positions", "vault-positions", "stats"},
            address : AddressSet, network : NetworkSet] :
        r.endpoint = "stats" => r.address = None}

InitRequest ==
    /\ req \in {Some(r) : r \in RequestSet}
    /\ gqlAnswers \in {Some(a) : a \in [primaryTrades : AnswerKinds,
                                         primaryHistory : AnswerKinds,
                                         fallbackTrades : {"data", "fail"},
                                         fallbackHistory : {"data", "fail"}]}
    /\ gqlCalls = [primary |-> 0, fallback |-> 0]
    /\ \E n \in 0..MaxRequestTrades : perpTrades \in [1..n -> RequestTradeSet]
    /\ tradeHistory \in {<<>>} \cup {Numbered(<<h>>) : h \in RequestHistorySet}
    /\ rpcReceipts = [h \in TxHashesOf(tradeHistory) |-> NotFound]
    /\ now = StartClock
    /\ pc = "validate"
    /\ validTxs = <<>>
    /\ feeI = 0
    /\ feeMap = <<>>
    /\ trades = <<>>
    /\ response = NoResponse
    /\ firstTrades = None
    /\ run = 1
    /\ positions = None
    /\ ScanIdle
    /\ FetchIdle
    /\ VolumeIdle

\* /api/trades, part_002 861-878 (routes.ts 491-508): 400 or on to the queries
ValidateTrades ==
    /\ pc = "validate"
    /\ Val(req).endpoint = "trades"
    /\ pc' = IF \/ ~IsDef(Val(req).address)
                \/ ~IsEvmAddress(Val(Val(req).address))
                \/ NetworkOf(Val(req)) \notin {"mainnet", "testnet"}
               THEN "rejected"
             ELSE "primary"
    /\ UNCHANGED <<perpTrades, tradeHistory, rpcReceipts, now, validTxs, feeI, feeMap,
                   trades, response, firstTrades, run, positions>>
    /\ UNCHANGED <<scanVars, serviceVars>>

\* part_002 893-905 (routes.ts 518-529): the two primary queries
QueryPrimary ==
    /\ pc = "primary"
    /\ gqlCalls' = [gqlCalls EXCEPT !.primary = @ + 1]
    /\ pc' = IF PrimaryThrew(Val(gqlAnswers)) THEN "fallback" ELSE "start"
    /\ UNCHANGED <<perpTrades, tradeHistory, rpcReceipts, now, validTxs, feeI, feeMap,
                   trades, response, firstTrades, run, positions>>
    /\ UNCHANGED <<scanVars, req, gqlAnswers, fetchVars, volumeVars>>

\* part_002 905-919, 1001-1004: the two reduced queries; a throw is the 500
QueryFallback ==
    /\ pc = "fallback"
    /\ gqlCalls' = [gqlCalls EXCEPT !.fallback = @ + 1]
    /\ IF FallbackThrew(Val(gqlAnswers))
         THEN pc' = "failed" /\ UNCHANGED perpTrades
       ELSE /\ pc' = "start"
            /\ perpTrades' = [k \in 1..Len(perpTrades) |-> WithoutRelation(perpTrades[k])]
    /\ UNCHANGED <<tradeHistory, rpcReceipts, now, validTxs, feeI, feeMap,
                   trades, response, firstTrades, run, positions>>
    /\ UNCHANGED <<scanVars, req, gqlAnswers, fetchVars, volumeVars>>

\* /api/positions, part_002 1009-1098 (routes.ts 619-692 has no second query)
HandlePositions ==
    /\ pc = "validate"
    /\ Val(req).endpoint = "positions"
    /\ LET answers == Val(gqlAnswers)
           invalid == \/ ~IsDef(Val(req).address)
                      \/ NetworkOf(Val(req)) \notin NETWORKS
           retry == Throws(answers.primaryTrades)
           data == IF retry
                     THEN [k \in 1..Len(perpTrades) |-> WithoutRelation(perpTrades[k])]
                   ELSE perpTrades
       IN IF invalid
            THEN pc' = "rejected" /\ UNCHANGED <<gqlCalls, positions>>
          ELSE /\ gqlCalls' = [primary |-> 1, fallback |-> IF retry THEN 1 ELSE 0]
               /\ IF retry /\ Throws(answers.fallbackTrades)
                    THEN /\ pc' = "failed"
                         /\ positions' = Some([status |-> 500, positions |-> <<>>])
                  ELSE /\ pc' = "answered"
                       /\ positions' = Some([status |-> 200,
                                             positions |-> OpenPositions(data, now)])
    /\ UNCHANGED <<perpTrades, tradeHistory, rpcReceipts, now, validTxs, feeI, feeMap,
                   trades, response, firstTrades, run>>
    /\ UNCHANGED <<scanVars, req, gqlAnswers, fetchVars, volumeVars>>

\* /api/vault-positions, part_002 1197-1233: one query, any errors are the 500
HandleVaultPositions ==
    /\ pc = "validate"
    /\ Val(req).endpoint = "vault-positions"
    /\ IF ~IsDef(Val(req).address) \/ NetworkOf(Val(req)) \notin NETWORKS
         THEN pc' = "rejected" /\ UNCHANGED gqlCalls
       ELSE /\ gqlCalls' = [gqlCalls EXCEPT !.primary = @ + 1]
            /\ pc' = IF Val(gqlAnswers).primaryTrades = "data" THEN "answered"
                     ELSE "failed"
    /\ UNCHANGED <<perpTrades, tradeHistory, rpcReceipts, now, validTxs, feeI, feeMap,
                   trades, response, firstTrades, run, positions>>
    /\ UNCHANGED <<scanVars, req, gqlAnswers, fetchVars, volumeVars>>

\* /api/stats, part_002 1100-1123: it takes no address
HandleStats ==
    /\ pc = "validate"
    /\ Val(req).endpoint = "stats"
    /\ IF NetworkOf(Val(req)) \notin NETWORKS
         THEN pc' = "rejected" /\ UNCHANGED gqlCalls
       ELSE /\ gqlCalls' = [gqlCalls EXCEPT !.primary = @ + 1]
            /\ pc' = IF Val(gqlAnswers).primaryTrades = "data" THEN "answered"
                     ELSE "failed"
    /\ UNCHANGED <<perpTrades, tradeHistory, rpcReceipts, now, validTxs, feeI, feeMap,
                   trades, response, firstTrades, run, positions>>
    /\ UNCHANGED <<scanVars, req, gqlAnswers, fetchVars, volumeVars>>

NextRequest ==
    \/ ValidateTrades
    \/ QueryPrimary
    \/ QueryFallback
    \/ StartRequest
    \/ FetchFeeBatch
    \/ Reconcile
    \/ ComputeStats
    \/ HandlePositions
    \/ HandleVaultPositions
    \/ HandleStats

SpecRequest == InitRequest /\ [][NextRequest]_vars

\* the request names a network that is not configured, or (where the endpoint
\* takes one) an address that is not 0x followed by 40 hex digits
InvalidRequest ==
    \/ NetworkOf(Val(req)) \notin {"mainnet", "testnet"}
    \/ /\ Val(req).endpoint /= "stats"
       /\ Val(req).address /= Some(ValidAddress)

\* C11: a request with an invalid network or a malformed address is answered
\* 400 and no upstream query is issued for it, on every endpoint.
C11_InvalidRequestRejected ==
    InvalidRequest =>
        /\ gqlCalls.primary = 0 /\ gqlCalls.fallback = 0
        /\ pc \in {"validate", "rejected"}

\* C14: /api/trades answers the generic error only when every source failed;
\* with one query failing and the other answering, the response is built from
\* the data obtained.
C14_ErrorOnlyWhenAllSourcesFail ==
    (Val(req).endpoint = "trades" /\ pc = "failed") =>
        /\ Val(gqlAnswers).primaryTrades = "fail"
        /\ Val(gqlAnswers).primaryHistory = "fail"
        /\ Val(gqlAnswers).fallbackTrades = "fail"
        /\ Val(gqlAnswers).fallbackHistory = "fail"

\* C20: in /api/trades the reduced queries are issued only after a primary
\* query failed, at most once; when they succeed the request succeeds, every
\* trade of a record without the relation has pair "Unknown"; the 500 is
\* answered only when a reduced query failed too.
C20_ReducedQueriesOnce ==
    Val(req).endpoint = "trades" =>
        LET a == Val(gqlAnswers)
            primaryFailed == a.primaryTrades = "fail" \/ a.primaryHistory = "fail"
            reducedFailed == a.fallbackTrades = "fail" \/ a.fallbackHistory = "fail"
        IN /\ gqlCalls.primary <= 1 /\ gqlCalls.fallback <= 1
           /\ gqlCalls.fallback = 1 => (gqlCalls.primary = 1 /\ primaryFailed)
           /\ pc = "failed" => (gqlCalls.fallback = 1 /\ reducedFailed)
           /\ (gqlCalls.fallback = 1 /\ ~reducedFailed) =>
                 /\ pc \in {"start", "fees", "stats", "done"}
                 /\ \A k \in Indices(trades) : trades[k].pair = Some("Unknown")

\* the reduced queries answered after a primary query failed, and the response
\* lists a trade
C20_Witness ==
    /\ Val(req).endpoint = "trades"
    /\ pc = "done"
    /\ gqlCalls = [primary |-> 1, fallback |-> 1]
    /\ Len(trades) > 0
    /\ \A k \in Indices(trades) : trades[k].pair = Some("Unknown")

-----------------------------------------------------------------------------
(* fetchFeesFromRpc request by request (routes.ts 286-330)                 *)
(*                                                                         *)
(* batch.map starts the callback of every transaction of the batch; each   *)
(* callback runs to its fetch, so the whole batch is in flight before the  *)
(* await of Promise.all.  The requests then settle one by one in any       *)
(* order.  An answer of kind "never" is an upstream that does not answer:  *)
(* the fetch carries no timeout or abort signal, so nothing settles it.    *)

Never == [kind |-> "never", logs |-> <<>>]

\* a slice that takes the rest of the list
BatchOfRest(i, len) == {k \in 1..len : i < k}

\* validTxs.slice(i, i + batchSize), as positions of validTxs
BatchOf(i, len) == {k \in 1..len : i < k /\ k <= i + batchSize}

\* a callback without the try/catch
RejectsOnThrow(answer) == answer.kind = "throw"

\* the callback of batch.map rejects: its try/catch spans fetch, json() and
\* the extraction, so no answer makes it reject (lines 292-312)
Rejects(answer) == FALSE

\* the most receipt requests of one /api/trades call in this specification
MaxTxs == 11

\* trade k of the trader: closed, with one closing change-log entry
FetchTrade(k) ==
    [id |-> k, isOpen |-> FALSE, isLong |-> TRUE, openCollateralAmount |-> 100 * E6,
     openBlock |-> Some(1), closeBlock |-> Some(2), state |-> None]

FetchHistoryItem(k) ==
    [id |-> k, tradeChangeType |-> "position_closed_user", evmTxHash |-> Some(ToString(k)),
     block_ts |-> 2, trade |-> [id |-> k, isLong |-> TRUE],
     realizedPnlPct |-> Some(5), realizedPnlCollateral |-> Some(50 * E6)]

\* how the RPC answers the request for the k-th of n hashes
AnswerPatterns == {"found", "mixed", "pruned", "first never", "last never"}

AnswerOf(pattern, k, n) ==
    CASE pattern = "found" -> Found(ClosingReceipt)
      [] pattern = "mixed" ->
             IF k % 3 = 0 THEN Failed
             ELSE IF k % 3 = 1 THEN NotFound
             ELSE Found(ClosingReceipt)
      [] pattern = "pruned" -> IF k % 2 = 1 THEN NotFound ELSE Found(ClosingReceipt)
      [] pattern = "first never" -> IF k = 1 THEN Never ELSE Found(ClosingReceipt)
      [] pattern = "last never" -> IF k = n THEN Never ELSE Found(ClosingReceipt)

InitFetch ==
    /\ \E n \in 0..MaxTxs, pattern \in AnswerPatterns :
          /\ perpTrades = [k \in 1..n |-> FetchTrade(k)]
          /\ tradeHistory = [k \in 1..n |-> FetchHistoryItem(k)]
          /\ rpcReceipts = [h \in {ToString(k) : k \in 1..n} |->
                              AnswerOf(pattern, CHOOSE k \in 1..n : ToString(k) = h, n)]
    /\ now = StartClock
    /\ pc = "start"
    /\ validTxs = <<>>
    /\ feeI = 0
    /\ feeMap = <<>>
    /\ trades = <<>>
    /\ response = NoResponse
    /\ firstTrades = None
    /\ run = 1
    /\ positions = None
    /\ ScanIdle
    /\ ReqIdle
    /\ FetchIdle
    /\ VolumeIdle

\* lines 288-291: the loop test, the slice, batch.map up to each fetch
IssueBatch ==
    /\ pc = "fees"
    /\ feeI < Len(validTxs)
    /\ inFlight' = BatchOf(feeI, Len(validTxs))
    /\ results' = <<>>
    /\ pc' = "await"
    /\ UNCHANGED <<perpTrades, tradeHistory, rpcReceipts, now, validTxs, feeI, feeMap,
                   trades, response, firstTrades, run, positions>>
    /\ UNCHANGED <<scanVars, reqVars, volumeVars>>

\* lines 292-312: the request of position k is answered, its callback returns
SettleReceipt(k) ==
    /\ pc = "await"
    /\ k \in inFlight
    /\ rpcReceipts[validTxs[k].evmTxHash].kind /= "never"
    /\ inFlight' = inFlight \ {k}
    /\ results' = Put(results, k,
                      FetchReceipt(validTxs[k], rpcReceipts[validTxs[k].evmTxHash]))
    /\ UNCHANGED <<perpTrades, tradeHistory, rpcReceipts, now, pc, validTxs, feeI,
                   feeMap, trades, response, firstTrades, run, positions>>
    /\ UNCHANGED <<scanVars, reqVars, volumeVars>>

\* lines 291, 316-330: Promise.all settles; a rejection leaves through the
\* catch of the handler (612-615), otherwise the batch is aggregated
AggregateBatch ==
    /\ pc = "await"
    /\ inFlight = {}
    /\ LET batch == BatchOf(feeI, Len(validTxs))
           receipts == [j \in 1..Cardinality(batch) |-> results[feeI + j]]
       IN IF \E k \in batch : Rejects(rpcReceipts[validTxs[k].evmTxHash])
            THEN pc' = "failed" /\ UNCHANGED <<feeMap, feeI>>
          ELSE /\ feeMap' = AggregateFees(feeMap, receipts)
               /\ feeI' = feeI + batchSize
               /\ pc' = "fees"
    /\ results' = <<>>
    /\ UNCHANGED <<perpTrades, tradeHistory, rpcReceipts, now, validTxs,
                   trades, response, firstTrades, run, positions>>
    /\ UNCHANGED <<scanVars, reqVars, inFlight, volumeVars>>

NextFetch ==
    \/ StartRequest
    \/ IssueBatch
    \/ \E k \in 1..Len(validTxs) : SettleReceipt(k)
    \/ AggregateBatch
    \/ Reconcile
    \/ ComputeStats

SpecFetch == InitFetch /\ [][NextFetch]_vars

\* every step of the handler that can be taken is taken, and every answer the
\* upstream gives arrives
FairSpecFetch == SpecFetch /\ WF_vars(NextFetch)

\* C15: at most batchSize (10) receipt requests are in flight at any moment,
\* and every request in flight belongs to the current batch: no request of a
\* later batch is issued before the previous batch has settled.
C15_BoundedInFlight ==
    /\ Cardinality(inFlight) <= 10
    /\ \A k \in inFlight : feeI < k /\ k <= feeI + 10
    /\ \A k \in DOMAIN results : feeI < k /\ k <= feeI + 10

\* the second batch is in flight after a full first batch settled
C15_Witness ==
    /\ pc = "await"
    /\ feeI = 10
    /\ inFlight /= {}
    /\ Cardinality(DOMAIN feeMap) > 0

\* C16: every receipt request is bounded by its own timeout, so that
\* fetchFeesFromRpc and the /api/trades response eventually complete even
\* when an upstream receipt request never answers.
C16_FetchCompletes == <>(pc = "done")

\* C17: a receipt request that throws or answers no result never makes
\* fetchFeesFromRpc reject nor /api/trades fail; the other requests of the
\* batch and the later batches are processed and their fees are recorded in
\* the fee map.
C17_FailedReceiptIsDropped ==
    /\ pc /= "failed"
    /\ \A k \in Indices(validTxs) :
          (k <= feeI /\ rpcReceipts[validTxs[k].evmTxHash].kind = "found")
              => /\ validTxs[k].tradeId \in DOMAIN feeMap
                 /\ feeMap[validTxs[k].tradeId].closingFee = 2
    /\ \A id \in DOMAIN feeMap :
          \E k \in Indices(validTxs) :
              /\ validTxs[k].tradeId = id
              /\ rpcReceipts[validTxs[k].evmTxHash].kind = "found"

\* the response is built after two batches in which a request threw, another
\* answered no result, and receipts of both batches were recorded
C17_Witness ==
    /\ pc = "done"
    /\ Len(validTxs) > 10
    /\ \E k \in 1..10 : rpcReceipts[validTxs[k].evmTxHash].kind = "throw"
    /\ \E k \in 1..10 : rpcReceipts[validTxs[k].evmTxHash].kind = "null"
    /\ \E k \in 1..10 : validTxs[k].tradeId \in DOMAIN feeMap
    /\ \E k \in Indices(validTxs) : k > 10 /\ validTxs[k].tradeId \in DOMAIN feeMap
    /\ \E k \in Indices(trades) : ~IsDef(trades[k].totalFees)
    /\ \E k \in Indices(trades) : trades[k].closingFee = Some(2)

-----------------------------------------------------------------------------
(* The global-volume cache (part_002 341-431, 843-858)                     *)
(*                                                                         *)
(* A run of fetchGlobalVolume is [network, fire, offset, totalVolume,      *)
(* tradeCount, seenTradeIds]: fire is 0 for the run started by             *)
(* initializeVolumeCache and n for the n-th firing of the interval.  Its   *)
(* accumulators are locals of the call; the cache entry is assigned once,  *)
(* after the loop.                                                         *)

\* fetchGlobalVolume: const batchSize = 1000
volumePageSize == 1000

\* the safety limit on offset
volumeLimit == 100000

\* the interval fires at most this many times
MaxFires == 2

VolumeItem(type, id, collateral, leverage) ==
    [tradeChangeType |-> type,
     trade |-> Some([id |-> id, openCollateralAmount |-> collateral * E6,
                     collateralAmount |-> collateral * E6, leverage |-> leverage])]

OrphanItem == [tradeChangeType |-> "position_opened", trade |-> None]

\* a page of the change-log: trade 1 opened, closed, and reported opened again
FirstPage ==
    <<VolumeItem("position_opened", 1, 100, 2),
      VolumeItem("position_closed_user", 1, 100, 2),
      VolumeItem("position_opened", 1, 100, 2)>>

SecondPage == <<VolumeItem("position_opened", 2, 50, 3), OrphanItem>>

\* an answer with errors, or without data.perp.tradeHistory
ErrorPage == <<"error">>

\* the pages a network's change-log query answers, by increasing offset
VolumeDataSet ==
    [mainnet : {<<>>, <<FirstPage>>, <<FirstPage, SecondPage>>, <<FirstPage, ErrorPage>>},
     testnet : {<<>>, <<ErrorPage>>}]

InitialEntry == [totalVolume |-> 0, tradeCount |-> 0, lastUpdated |-> None]

NewRun(network, fire) ==
    [network |-> network, fire |-> fire, offset |-> 0, totalVolume |-> 0,
     tradeCount |-> 0, seenTradeIds |-> {}]

\* the page the query answers for this offset; past the last page it is empty
PageAt(data, offset) ==
    LET n == (offset \div volumePageSize) + 1
    IN IF n <= Len(data) THEN data[n] ELSE <<>>

\* a loop that counts every position_opened entry
RECURSIVE AddItemsUnseen(_, _)
AddItemsUnseen(r, items) ==
    IF items = <<>> THEN r
    ELSE LET item == Head(items)
         IN AddItemsUnseen(IF IsDef(item.trade) /\ item.tradeChangeType = "position_opened"
                             THEN [r EXCEPT
                                     !.seenTradeIds = @ \cup {Val(item.trade).id},
                                     !.totalVolume = @ + (Val(item.trade).openCollateralAmount
                                                            \div E6) * Val(item.trade).leverage,
                                     !.tradeCount = @ + 1]
                           ELSE r,
                           Tail(items))

\* lines 382-393: the loop over the items of a page
RECURSIVE AddItems(_, _)
AddItems(r, items) ==
    IF items = <<>> THEN r
    ELSE LET item == Head(items)
             counts == /\ IsDef(item.trade)
                       /\ item.tradeChangeType = "position_opened"
                       /\ Val(item.trade).id \notin r.seenTradeIds
             collateral == IF Val(item.trade).openCollateralAmount /= 0
                             THEN Val(item.trade).openCollateralAmount
                           ELSE Val(item.trade).collateralAmount
         IN AddItems(IF counts
                       THEN [r EXCEPT
                               !.seenTradeIds = @ \cup {Val(item.trade).id},
                               !.totalVolume = @ + (collateral \div E6)
                                                   * Val(item.trade).leverage,
                               !.tradeCount = @ + 1]
                     ELSE r,
                     Tail(items))

\* lines 405-409: the entry a finished run assigns
EntryOf(r, clock) ==
    [totalVolume |-> r.totalVolume, tradeCount |-> r.tradeCount,
     lastUpdated |-> Some(clock)]

\* a run that publishes its running total after every page
CacheAfterPagePartial(cache, r) ==
    [cache EXCEPT ![r.network].totalVolume = r.totalVolume]

\* the cache while a run is between two pages: the run has not touched it
CacheAfterPage(cache, r) == cache

InitVolume ==
    /\ volumeCache = [n \in NETWORKS |-> InitialEntry]
    /\ volumeData \in VolumeDataSet
    /\ volumeRuns = {NewRun(n, 0) : n \in NETWORKS}
    /\ volumeTimer = None
    /\ volumeClock = 1
    /\ volumeDone = {}
    /\ volumeRead = None
    /\ ApiIdle
    /\ ScanIdle
    /\ ReqIdle
    /\ FetchIdle

VolumeRest == <<apiVars, scanVars, reqVars, fetchVars>>

\* a failure that zeroes the entry of the network
VolumeFetchFailsZeroing(r) ==
    /\ r \in volumeRuns
    /\ volumeRuns' = volumeRuns \ {r}
    /\ volumeCache' = [volumeCache EXCEPT ![r.network] = InitialEntry]
    /\ UNCHANGED <<volumeData, volumeTimer, volumeClock, volumeDone, volumeRead,
                   apiVars, scanVars, reqVars, fetchVars>>

\* lines 374-378 and 412-414: the query answers with errors or without data,
\* or fetch or json() throws, which any request can; the run ends and the
\* cache keeps its entry
VolumeFetchFails(r) ==
    /\ r \in volumeRuns
    /\ \E threw \in BOOLEAN :
          threw \/ PageAt(volumeData[r.network], r.offset) = ErrorPage
    /\ volumeRuns' = volumeRuns \ {r}
    /\ UNCHANGED <<volumeCache, volumeData, volumeTimer, volumeClock,
                   volumeDone, volumeRead, VolumeRest>>

\* lines 405-409: the run replaces the entry of its network
VolumeWrite(r) ==
    /\ volumeCache' = [volumeCache EXCEPT ![r.network] = EntryOf(r, volumeClock)]
    /\ volumeDone' = volumeDone \cup
                       {[network |-> r.network, entry |-> EntryOf(r, volumeClock)]}

\* lines 380-403: a page with items is added up; the loop goes on unless the
\* safety limit is reached
VolumeFetchPage(r) ==
    /\ r \in volumeRuns
    /\ PageAt(volumeData[r.network], r.offset) \notin {ErrorPage, <<>>}
    /\ LET added == AddItems(r, PageAt(volumeData[r.network], r.offset))
           next == [added EXCEPT !.offset = @ + volumePageSize]
       IN IF next.offset >= volumeLimit
            THEN /\ VolumeWrite(next)
                 /\ volumeRuns' = volumeRuns \ {r}
          ELSE /\ volumeRuns' = (volumeRuns \ {r}) \cup {next}
               /\ volumeCache' = CacheAfterPage(volumeCache, next)
               /\ UNCHANGED volumeDone
    /\ UNCHANGED <<volumeData, volumeTimer, volumeClock, volumeRead, VolumeRest>>

\* line 381 and 405-409: an empty page ends the loop and the entry is assigned
VolumeFetchEnds(r) ==
    /\ r \in volumeRuns
    /\ PageAt(volumeData[r.network], r.offset) = <<>>
    /\ VolumeWrite(r)
    /\ volumeRuns' = volumeRuns \ {r}
    /\ UNCHANGED <<volumeData, volumeTimer, volumeClock, volumeRead, VolumeRest>>

\* lines 420-426: once both first runs have settled the interval is set
SetVolumeInterval ==
    /\ volumeTimer = None
    /\ \A r \in volumeRuns : r.fire /= 0
    /\ volumeTimer' = Some(0)
    /\ UNCHANGED <<volumeCache, volumeData, volumeRuns, volumeClock,
                   volumeDone, volumeRead, VolumeRest>>

\* lines 426-430: eight hours later a run is started for each network,
\* whatever the earlier runs are doing
VolumeIntervalFires ==
    /\ IsDef(volumeTimer)
    /\ Val(volumeTimer) < MaxFires
    /\ volumeTimer' = Some(Val(volumeTimer) + 1)
    /\ volumeClock' = volumeClock + 1
    /\ volumeRuns' = volumeRuns \cup
                       {NewRun(n, Val(volumeTimer) + 1) : n \in NETWORKS}
    /\ UNCHANGED <<volumeCache, volumeData, volumeDone, volumeRead, VolumeRest>>

\* lines 843-858: GET /api/protocol-stats/volume answers from the cache
ReadVolume(network) ==
    /\ network \in NETWORKS
    /\ volumeRead' = Some([totalVolume |-> volumeCache[network].totalVolume,
                           tradeCount |-> volumeCache[network].tradeCount,
                           lastUpdated |-> volumeCache[network].lastUpdated,
                           network |-> network])
    /\ UNCHANGED <<volumeCache, volumeData, volumeRuns, volumeTimer,
                   volumeClock, volumeDone, VolumeRest>>

NextVolume ==
    \/ \E r \in volumeRuns : VolumeFetchFails(r)
    \/ \E r \in volumeRuns : VolumeFetchPage(r)
    \/ \E r \in volumeRuns : VolumeFetchEnds(r)
    \/ SetVolumeInterval
    \/ VolumeIntervalFires
    \/ \E n \in NETWORKS : ReadVolume(n)

SpecVolume == InitVolume /\ [][NextVolume]_vars

RunsOf(network) == {r \in volumeRuns : r.network = network}

\* C18: for each network at most one fetchGlobalVolume is in flight
C18_OneRunPerNetwork ==
    \A n \in NETWORKS : Cardinality(RunsOf(n)) <= 1

\* C19: a read of the volume cache is always possible, and what it returns is
\* the initial entry or the entry assigned by one finished run
C19_ReadIsCompleteEntry ==
    /\ \A n \in NETWORKS : ENABLED ReadVolume(n)
    /\ IsDef(volumeRead) =>
         LET a == Val(volumeRead)
             e == [totalVolume |-> a.totalVolume, tradeCount |-> a.tradeCount,
                   lastUpdated |-> a.lastUpdated]
         IN \/ e = InitialEntry
            \/ [network |-> a.network, entry |-> e] \in volumeDone

\* a read answered with a finished run's entry while a later run of the same
\* network holds a different running total
C19_Witness ==
    /\ IsDef(volumeRead)
    /\ IsDef(Val(volumeRead).lastUpdated)
    /\ \E r \in RunsOf(Val(volumeRead).network) :
         /\ r.totalVolume > 0
         /\ r.totalVolume /= Val(volumeRead).totalVolume

-----------------------------------------------------------------------------
(* Empty upstream answers and the order of the list (routes.ts 571-611) *)

\* C22: when both upstream lists are empty, /api/trades answers 200 with an
\* empty trades list, totalTrades = 0, winRate = 0 and totalPnl = 0.
C22_EmptyDataIsEmptyList ==
    (pc = "done" /\ perpTrades = <<>> /\ tradeHistory = <<>>) =>
        /\ trades = <<>>
        /\ response.status = 200
        /\ response.totalTrades = 0
        /\ response.totalPnl = 0
        /\ response.winRate.kind = "num"
        /\ response.winRate.num = 0

\* a trader without any upstream record has been answered
C22_Witness ==
    /\ pc = "done"
    /\ perpTrades = <<>>
    /\ tradeHistory = <<>>
    /\ response.status /= 0

\* the converted trades in merge order: point-in-time entries, then the
\* change-log entries of unseen identities
MergeOrder ==
    LayerHistory(SeedFromTrades(perpTrades, BuildPnlMap(<<>>, tradeHistory), feeMap, now),
                 tradeHistory).list

\* the entries of list ts that carry timestamp x, in list order
AtTime(ts, x) == LET Same(t) == t.timestamp = x IN SelectSeq(ts, Same)

\* C24: the trades list is ordered by non-increasing timestamp, and the
\* entries of one timestamp stand in merge order.
C24_SortedStable ==
    Answered =>
        /\ \A i, j \in Indices(trades) :
              i < j => trades[i].timestamp >= trades[j].timestamp
        /\ \A x \in BlockTimes \cup {StartClock} :
              AtTime(trades, x) = AtTime(MergeOrder, x)

\* two different entries share a timestamp, the earlier-merged one a
\* point-in-time entry, the later one a change-log entry, below a newer entry
C24_Witness ==
    /\ Answered
    /\ \E i, j, k \in Indices(trades) :
          /\ k < i /\ i < j
          /\ trades[k].timestamp > trades[i].timestamp
          /\ trades[i].timestamp = trades[j].timestamp
          /\ trades[i].txHash[1] = "trade"
          /\ trades[j].txHash[1] = "history"

-----------------------------------------------------------------------------
(* Specification of the fee overlay of one trade: its opening and its      *)
(* closing receipt among the receipts of another trade                     *)

\* the most change-log entries of one request in this specification
MaxOverlay == 11

\* the receipt of a closing transaction that charged a trigger fee
TriggerClosingReceipt ==
    <<FeeLog("process_closing_fees", Some(2 * E6), Some(4 * E6))>>

\* Trade 1 is opened by change-log entry p and closed by entry q; every
\* other entry closes trade 2.  Either receipt of trade 1 may be pruned, and
\* the point-in-time record of trade 1 may carry a state.
InitOverlay ==
    /\ \E n \in 2..MaxOverlay, st \in {None, Some(TradeState(3, 30, 1))} :
         \E p, q \in 1..n :
          /\ p /= q
          /\ perpTrades = <<[FetchTrade(1) EXCEPT !.state = st], FetchTrade(2)>>
          /\ tradeHistory =
               [k \in 1..n |->
                  IF k = p
                    THEN [FetchHistoryItem(1) EXCEPT
                            !.id = k, !.tradeChangeType = "position_opened",
                            !.evmTxHash = Some("open"),
                            !.realizedPnlPct = None, !.realizedPnlCollateral = None]
                  ELSE IF k = q
                    THEN [FetchHistoryItem(1) EXCEPT !.id = k, !.evmTxHash = Some("close")]
                  ELSE [FetchHistoryItem(2) EXCEPT !.id = k, !.evmTxHash = Some(ToString(k))]]
          /\ \E opening \in {NotFound, Found(OpeningReceipt)},
                closing \in {NotFound, Found(TriggerClosingReceipt)} :
               rpcReceipts = [h \in {"open", "close"} \cup {ToString(k) : k \in (1..n) \ {p, q}} |->
                                IF h = "open" THEN opening
                                ELSE IF h = "close" THEN closing
                                ELSE Found(ClosingReceipt)]
    /\ now = StartClock
    /\ pc = "start"
    /\ validTxs = <<>>
    /\ feeI = 0
    /\ feeMap = <<>>
    /\ trades = <<>>
    /\ response = NoResponse
    /\ firstTrades = None
    /\ run = 1
    /\ positions = None
    /\ ScanIdle
    /\ ServiceIdle

SpecOverlay == InitOverlay /\ [][Next]_vars

\* the fee fields that are defined on trade t
DefinedFees(t) ==
    {f \in {"openingFee", "closingFee", "triggerFee", "borrowingFee"} : IsDef(t[f])}

RECURSIVE SumFees(_, _)
SumFees(t, F) ==
    IF F = {} THEN 0
    ELSE LET f == CHOOSE g \in F : TRUE IN Val(t[f]) + SumFees(t, F \ {f})

\* C25: on every trade produced by convertTrade, totalFees is defined exactly
\* when one of openingFee, closingFee, triggerFee, borrowingFee is defined,
\* and then it is the sum of the defined ones.
C25_TotalFeesIsSumOfDefined ==
    Answered =>
        \A k \in Indices(trades) :
            trades[k].txHash[1] = "trade" =>
                /\ IsDef(trades[k].totalFees) <=> DefinedFees(trades[k]) /= {}
                /\ IsDef(trades[k].totalFees) =>
                      Val(trades[k].totalFees) = SumFees(trades[k], DefinedFees(trades[k]))

\* one answer holds a trade with all four components and their total, and a
\* trade with no component and no total
C25_Witness ==
    /\ Answered
    /\ \E k, l \in Indices(trades) :
          /\ trades[k].txHash[1] = "trade"
          /\ Cardinality(DefinedFees(trades[k])) = 4
          /\ trades[k].totalFees = Some(3 + 2 + 5 + 1)
          /\ trades[l].txHash[1] = "trade"
          /\ DefinedFees(trades[l]) = {}
          /\ ~IsDef(trades[l].totalFees)

\* the change-log positions of the opening and of the closing entry of trade 1
OpeningAt == CHOOSE k \in Indices(tradeHistory) : tradeHistory[k].evmTxHash = Some("open")

ClosingAt == CHOOSE k \in Indices(tradeHistory) : tradeHistory[k].evmTxHash = Some("close")

\* C26: with one opening and one closing receipt for a trade id, the fee-map
\* entry holds the opening fee of the opening receipt, the closing fee of the
\* closing receipt and the sum of both trigger fees, whichever is processed
\* first and whether or not they fall in one batch.
C26_ComponentsAccumulate ==
    (Answered /\ rpcReceipts["open"].kind = "found" /\ rpcReceipts["close"].kind = "found") =>
        /\ 1 \in DOMAIN feeMap
        /\ feeMap[1] = [openingFee |-> 3, closingFee |-> 2, triggerFee |-> 1 + 4]

\* the closing receipt was processed in the first batch and the opening
\* receipt in the second
C26_Witness ==
    /\ Answered
    /\ rpcReceipts["open"].kind = "found"
    /\ rpcReceipts["close"].kind = "found"
    /\ ClosingAt <= 10
    /\ OpeningAt > 10
    /\ feeMap[1].triggerFee = 5

-----------------------------------------------------------------------------
(* Frame of the volume cache, and one run of fetchGlobalVolume to its end *)

\* C29: a run that fails leaves the entry of its network as it was, and the
\* entry of a network changes only when a run of that network ends by
\* assigning its own result; no run changes the entry of the other network.
C29_FailedRunKeepsCache ==
    [][(\A n \in NETWORKS :
           volumeCache'[n] /= volumeCache[n] =>
               \E r \in RunsOf(n) :
                   /\ r \notin volumeRuns'
                   /\ PageAt(volumeData[n], r.offset) /= ErrorPage
                   /\ [network |-> n, entry |-> volumeCache'[n]] \in volumeDone'
                   /\ volumeCache'[n].lastUpdated = Some(volumeClock))
       /\ ((volumeRuns' /= volumeRuns /\ volumeDone' = volumeDone)
              => volumeCache' = volumeCache)]_vars

\* the first refresh of mainnet has ended without a result: the entry is
\* still the one the startup run assigned
C29_Witness ==
    /\ volumeTimer = Some(1)
    /\ RunsOf("mainnet") = {}
    /\ volumeCache["mainnet"].lastUpdated = Some(1)
    /\ volumeCache["mainnet"].totalVolume > 0
    /\ Cardinality(volumeDone) = 2

\* a change-log that never answers an empty page within the safety limit
LongData == [k \in 1..(volumeLimit \div volumePageSize) + 1 |-> FirstPage]

\* the startup runs alone: the interval is not set yet
InitVolumeRun ==
    /\ volumeCache = [n \in NETWORKS |-> InitialEntry]
    /\ volumeData \in [mainnet : {<<FirstPage, SecondPage>>, <<FirstPage, ErrorPage>>, LongData},
                       testnet : {<<>>, <<SecondPage, FirstPage>>}]
    /\ volumeRuns = {NewRun(n, 0) : n \in NETWORKS}
    /\ volumeTimer = None
    /\ volumeClock = 1
    /\ volumeDone = {}
    /\ volumeRead = None
    /\ ApiIdle
    /\ ScanIdle
    /\ ReqIdle
    /\ FetchIdle

\* the next request of a run is answered
RunStep ==
    \E r \in volumeRuns : VolumeFetchFails(r) \/ VolumeFetchPage(r) \/ VolumeFetchEnds(r)

NextVolumeRun ==
    \/ \E r \in volumeRuns : VolumeFetchFails(r)
    \/ \E r \in volumeRuns : VolumeFetchPage(r)
    \/ \E r \in volumeRuns : VolumeFetchEnds(r)
    \/ \E n \in NETWORKS : ReadVolume(n)

SpecVolumeRun == InitVolumeRun /\ [][NextVolumeRun]_vars

\* upstream answers every request of a run
FairSpecVolumeRun == SpecVolumeRun /\ WF_vars(RunStep)

\* the position size of the first position_opened entry of trade id
OpenedSize(id) == IF id = 1 THEN 200 ELSE 150

RECURSIVE SumSizes(_)
SumSizes(S) ==
    IF S = {} THEN 0
    ELSE LET id == CHOOSE x \in S : TRUE IN OpenedSize(id) + SumSizes(S \ {id})

\* the running totals of r count each seen trade id once
CountedOnce(r) ==
    /\ r.seenTradeIds \subseteq {1, 2}
    /\ r.tradeCount = Cardinality(r.seenTradeIds)
    /\ r.totalVolume = SumSizes(r.seenTradeIds)
    /\ r.offset <= volumeLimit

-----------------------------------------------------------------------------
(* Direction of a trade in the log-scan replay (schema.ts 2024-2156) *)

\* the replayed open events that carry a long field
DirectionSetters == {k \in Replayed : IsOpenEvent(txLogs[k]) /\ IsDef(txLogs[k].long)}

-----------------------------------------------------------------------------
(* Log-scan of the chain (schema.ts 1923-2004, 2167-2177)                  *)
(*                                                                         *)
(* getLogsInChunks asks for the logs of the search range chunk by chunk;   *)
(* getAddressTransactions then fetches the receipt of every transaction    *)
(* that has a matching log and pushes one Trade per fetched receipt.  A    *)
(* block of chainLogs holds one matching log; its transaction is named by  *)
(* the block number, which is also the instant of its timestamp.  The      *)
(* replay of the logs of a receipt is the specification SpecScan.          *)

\* getLogsInChunks: const chunkSize = 9000
chunkSize == 9000

\* getAddressTransactions: const blocksToSearch = 50000
blocksToSearch == 50000

\* start.toString(16): the hexadecimal digits of a block number
RECURSIVE ToHex(_)
ToHex(n) == IF n < 16 THEN <<n>> ELSE ToHex(n \div 16) \o <<n % 16>>

\* the block number the node reads from the digits of a request
RECURSIVE HexValue(_)
HexValue(digits) ==
    IF digits = <<>> THEN 0
    ELSE 16 * HexValue(SubSeq(digits, 1, Len(digits) - 1)) + digits[Len(digits)]

\* a chunk end that is not clamped to the end of the search
ChunkEndUnclamped(s, to) == s + chunkSize - 1

\* line 1928: Math.min(start + chunkSize - 1, toBlock)
ChunkEnd(s, to) == IF s + chunkSize - 1 < to THEN s + chunkSize - 1 ELSE to

\* the blocks of S in ascending order
RECURSIVE Ascending(_)
Ascending(S) ==
    IF S = {} THEN <<>>
    ELSE LET b == CHOOSE x \in S : \A y \in S : x <= y
         IN <<b>> \o Ascending(S \ {b})

\* what eth_getLogs answers for the blocks lo..hi
LogsIn(lo, hi) == Ascending({b \in chainLogs : lo <= b /\ b <= hi})

\* a failure that gives up the logs collected so far
CaughtLogsDropped(logs) == <<>>

\* lines 1939-1941: the catch logs the error and the loop goes on
CaughtLogs(logs) == logs

\* the first blocks and the lengths of the searches
FromBlocks == {0, 5000}

Spans == {0, 1, chunkSize - 1, chunkSize, 2 * chunkSize, blocksToSearch}

InitChunks ==
    /\ \E from \in FromBlocks, span \in Spans :
          /\ fromBlock = from
          /\ toBlock = from + span
          /\ chainLogs \in SUBSET {b \in {from, from + chunkSize - 1, from + chunkSize,
                                          from + span} : b <= from + span}
    /\ start = fromBlock
    /\ issued = <<>>
    /\ allLogs = <<>>
    /\ skipped = {}
    /\ matchingTxHashes = <<>>
    /\ txLogsMap = <<>>
    /\ scanTrades = <<>>
    /\ chunkPc = "logs"
    /\ txLogs = <<>>
    /\ logIdx = 0
    /\ trade = BlankTrade
    /\ scanPc = "idle"
    /\ ParseIdle
    /\ ApiIdle
    /\ ServiceIdle

ChunkRest == <<apiVars, serviceVars, replayVars, parseVars>>

\* lines 1927-1942: one iteration of the loop of getLogsInChunks
GetLogsChunk ==
    /\ chunkPc = "logs"
    /\ start <= toBlock
    /\ LET request == [fromBlock |-> ToHex(start),
                       toBlock |-> ToHex(ChunkEnd(start, toBlock))]
       IN /\ issued' = Append(issued, request)
          /\ \E failed \in BOOLEAN :
                IF failed
                  THEN /\ allLogs' = CaughtLogs(allLogs)
                       /\ skipped' = skipped \cup {<<"chunk", start>>}
                ELSE /\ allLogs' = allLogs \o LogsIn(HexValue(request.fromBlock),
                                                     HexValue(request.toBlock))
                     /\ UNCHANGED skipped
    /\ start' = start + chunkSize
    /\ UNCHANGED <<fromBlock, toBlock, chainLogs, matchingTxHashes, txLogsMap,
                   scanTrades, chunkPc, ChunkRest>>

\* lines 1944, 1966-1983: the loop has ended; the transactions of the logs
\* are collected
CollectMatching ==
    /\ chunkPc = "logs"
    /\ start > toBlock
    /\ matchingTxHashes' = allLogs
    /\ chunkPc' = "receipts"
    /\ UNCHANGED <<fromBlock, toBlock, chainLogs, start, issued, allLogs, skipped,
                   txLogsMap, scanTrades, ChunkRest>>

\* lines 1988-2004: the receipt of the next transaction is asked for; the
\* call throws, answers null, or answers the receipt
GetReceipt ==
    /\ chunkPc = "receipts"
    /\ matchingTxHashes /= <<>>
    /\ \E answer \in {"found", "null", "throw"} :
          /\ txLogsMap' = IF answer = "found"
                            THEN Append(txLogsMap, Head(matchingTxHashes))
                          ELSE txLogsMap
          /\ skipped' = IF answer = "found" THEN skipped
                        ELSE skipped \cup {<<answer, Head(matchingTxHashes)>>}
    /\ matchingTxHashes' = Tail(matchingTxHashes)
    /\ UNCHANGED <<fromBlock, toBlock, chainLogs, start, issued, allLogs,
                   scanTrades, chunkPc, ChunkRest>>

\* lines 2007-2015, 2167, 2175: one Trade per fetched receipt, then the sort
PushTrades ==
    /\ chunkPc = "receipts"
    /\ matchingTxHashes = <<>>
    /\ scanTrades' = SortDesc(<<>>, [k \in 1..Len(txLogsMap) |->
                                       [txHash |-> txLogsMap[k],
                                        timestamp |-> txLogsMap[k]]])
    /\ chunkPc' = "done"
    /\ UNCHANGED <<fromBlock, toBlock, chainLogs, start, issued, allLogs, skipped,
                   matchingTxHashes, txLogsMap, ChunkRest>>

NextChunks == GetLogsChunk \/ CollectMatching \/ GetReceipt \/ PushTrades

SpecChunks == InitChunks /\ [][NextChunks]_vars

\* the block ranges of the requests, as the node reads them
Ranges ==
    [k \in 1..Len(issued) |->
        <<HexValue(issued[k].fromBlock), HexValue(issued[k].toBlock)>>]

\* C28: the eth_getLogs requests go out in ascending block order; their
\* ranges are disjoint, each covers at most 9,000 blocks, and together they
\* are exactly fromBlock..toBlock.
C28_ChunksPartitionRange ==
    /\ \A k \in Indices(issued) :
          /\ Ranges[k][1] <= Ranges[k][2]
          /\ Ranges[k][2] - Ranges[k][1] + 1 <= 9000
          /\ k = 1 => Ranges[k][1] = fromBlock
          /\ k > 1 => Ranges[k][1] = Ranges[k - 1][2] + 1
          /\ Ranges[k][2] <= toBlock
    /\ chunkPc /= "logs" =>
          /\ issued /= <<>>
          /\ Ranges[Len(issued)][2] = toBlock

\* a search of 50,001 blocks has been asked for in six requests
C28_Witness ==
    /\ chunkPc = "done"
    /\ toBlock - fromBlock = 50000
    /\ Len(issued) = 6

\* the start of the chunk that holds block b
ChunkOf(b) == fromBlock + ((b - fromBlock) \div 9000) * 9000

\* the transactions of the Trades returned
Returned == {scanTrades[k].txHash : k \in Indices(scanTrades)}

\* C21: a failing eth_getLogs call or receipt call is skipped: the trade of
\* every transaction whose own chunk and own receipt were answered is
\* returned, and no other.
C21_FailuresAreSkipped ==
    chunkPc = "done" =>
        \A b \in chainLogs :
            b \in Returned <=>
                /\ <<"chunk", ChunkOf(b)>> \notin skipped
                /\ <<"throw", b>> \notin skipped
                /\ <<"null", b>> \notin skipped

\* one chunk and one receipt failed, and trades of an earlier and of a later
\* chunk are returned
C21_Witness ==
    /\ chunkPc = "done"
    /\ \E b, c, d \in chainLogs :
          /\ b < c /\ c < d
          /\ <<"chunk", ChunkOf(c)>> \in skipped
          /\ b \in Returned
          /\ d \in Returned
    /\ \E b \in chainLogs : <<"throw", b>> \in skipped

-----------------------------------------------------------------------------
(* parseEventData and decodeAbiString (schema.ts 1763-1887)                *)
(*                                                                         *)
(* A text is a sequence of tokens, each standing for a run of characters:  *)
(*   "{" and "}"  the braces;                                              *)
(*   "P"  a recognised key with a quoted value, as "profit_pct":"0.1",     *)
(*        with the comma that separates it from its neighbour;             *)
(*   "U"  any other key and value (a pair the regular expressions do not   *)
(*        match);                                                          *)
(*   "K"  a key and its colon, before a nested object;                     *)
(*   "X"  any other characters: a cut-off pair, undecodable bytes.         *)
(* The data of a log is [form, length, payload]:                           *)
(*   "abi"  at least 128 hex characters, a readable length word: the text  *)
(*          is the first length tokens of the payload;                     *)
(*   "nan"  at least 128 hex characters, an unreadable length word:        *)
(*          substring(128, NaN) is the head, whose bytes are the payload;  *)
(*   "raw"  fewer than 128 hex characters: every byte is decoded;          *)
(*   "not a string"  data is missing: startsWith throws a TypeError.       *)

\* the longest payload, in tokens
MaxTokens == 5

Tokens == {"{", "}", "P", "U", "K", "X"}

\* the most tokens of a payload of fewer than 128 hex characters, or of a head
ShortTokens == 3

Payloads(n) == UNION {[1..k -> Tokens] : k \in 0..n}

\* the inputs: the length word of an encoded string names the whole payload
\* or cuts its last token off; the other forms carry no length
InputSet ==
    {[form |-> "abi", length |-> Len(p) - cut, payload |-> p] :
        p \in Payloads(MaxTokens) \ {<<>>}, cut \in {0, 1}}
    \cup {[form |-> f, length |-> 0, payload |-> p] :
            f \in {"nan", "raw"}, p \in Payloads(ShortTokens)}
    \cup {[form |-> "abi", length |-> 0, payload |-> <<>>],
          [form |-> "not a string", length |-> 0, payload |-> <<>>]}

Thrown == [kind |-> "throw"]

Null == [kind |-> "null"]

\* lines 1763-1801: the decoded text, or the TypeError of hex.startsWith
decodeAbiString(data) ==
    CASE data.form = "not a string" -> Thrown
      [] data.form = "abi" ->
             [kind |-> "text",
              text |-> SubSeq(data.payload, 1,
                              IF data.length < Len(data.payload) THEN data.length
                              ELSE Len(data.payload))]
      [] OTHER -> [kind |-> "text", text |-> data.payload]

\* line 1808: text.indexOf('{'), 0 for -1
IndexOfBrace(text) ==
    IF \E i \in 1..Len(text) : text[i] = "{"
      THEN CHOOSE i \in 1..Len(text) :
               text[i] = "{" /\ \A j \in 1..(i - 1) : text[j] /= "{"
    ELSE 0

\* lines 1812-1823: the loop that looks for the matching closing brace; 0
\* when the text ends first
RECURSIVE MatchingBrace(_, _, _)
MatchingBrace(text, i, depth) ==
    IF i > Len(text) THEN 0
    ELSE IF text[i] = "{" THEN MatchingBrace(text, i + 1, depth + 1)
    ELSE IF text[i] = "}"
      THEN IF depth - 1 = 0 THEN i ELSE MatchingBrace(text, i + 1, depth - 1)
    ELSE MatchingBrace(text, i + 1, depth)

\* JSON.parse accepts an object: braces around members, a member being a
\* pair or a key with a nested object.  Each operator gives the position
\* after what it read, 0 when the text is no JSON.
RECURSIVE ReadObject(_, _), ReadMembers(_, _)
ReadObject(str, i) ==
    IF i > Len(str) \/ str[i] /= "{" THEN 0
    ELSE IF i + 1 <= Len(str) /\ str[i + 1] = "}" THEN i + 2
    ELSE LET j == ReadMembers(str, i + 1)
         IN IF j /= 0 /\ j <= Len(str) /\ str[j] = "}" THEN j + 1 ELSE 0

ReadMembers(str, i) ==
    IF i > Len(str) THEN 0
    ELSE LET j == IF str[i] \in {"P", "U"} THEN i + 1
                  ELSE IF str[i] = "K" THEN ReadObject(str, i + 1)
                  ELSE 0
         IN IF j = 0 THEN 0
            ELSE IF j <= Len(str) /\ str[j] \in {"P", "U", "K"} THEN ReadMembers(str, j)
            ELSE j

\* line 1831: JSON.parse(jsonStr) returns
JsonParses(str) == ReadObject(str, 1) = Len(str) + 1

\* lines 1835-1881: the keys the regular expressions find in jsonStr
MatchedKeys(str) == {i \in 1..Len(str) : str[i] = "P"}

\* lines 1806-1882: the body of the outer try
ParseBody(data) ==
    LET decoded == decodeAbiString(data)
    IN IF decoded.kind = "throw" THEN Thrown
       ELSE LET text == decoded.text
                jsonStart == IndexOfBrace(text)
                jsonEnd == IF jsonStart = 0 THEN 0 ELSE MatchingBrace(text, jsonStart, 0)
                jsonStr == SubSeq(text, jsonStart, jsonEnd)
            IN IF jsonStart = 0 \/ jsonEnd = 0 THEN Null
               ELSE IF JsonParses(jsonStr) THEN [kind |-> "object", json |-> jsonStr]
               ELSE IF MatchedKeys(jsonStr) /= {}
                 THEN [kind |-> "partial",
                       keys |-> {jsonStr[i] : i \in MatchedKeys(jsonStr)}]
               ELSE Null

\* a function without the outer try
Uncaught(outcome) == outcome

\* lines 1805, 1883-1886: the outer try and its catch
Caught(outcome) == IF outcome.kind = "throw" THEN Null ELSE outcome

parseEventData(data) == Caught(ParseBody(data))

InitParse ==
    /\ eventInput \in InputSet
    /\ eventParsed = None
    /\ txLogs = <<>>
    /\ logIdx = 0
    /\ trade = BlankTrade
    /\ scanPc = "idle"
    /\ ChainIdle
    /\ ApiIdle
    /\ ServiceIdle

\* lines 1972, 1994: parseEventData(log.data)
ParseEvent ==
    /\ eventParsed = None
    /\ eventParsed' = Some(parseEventData(eventInput))
    /\ UNCHANGED <<eventInput, apiVars, serviceVars, replayVars, chainVars>>

NextParse == ParseEvent

SpecParse == InitParse /\ [][NextParse]_vars

\* the decoded text of the input, empty when there is none
DecodedText ==
    IF decodeAbiString(eventInput).kind = "text" THEN decodeAbiString(eventInput).text
    ELSE <<>>

\* the braces opened minus the braces closed in text[i..j]
Depth(text, i, j) ==
    Cardinality({k \in i..j : text[k] = "{"}) - Cardinality({k \in i..j : text[k] = "}"})

\* the text has a '{' and a position where the braces since the first '{' balance
HasBalancedObject(text) ==
    \E i \in 1..Len(text) :
        /\ text[i] = "{"
        /\ \A h \in 1..(i - 1) : text[h] /= "{"
        /\ \E j \in i..Len(text) : Depth(text, i, j) = 0

\* C27: parseEventData never throws: it returns a parsed object, a partial
\* record holding only recognised keys, or null; and it returns null when the
\* decoded text has no '{' or no balanced closing brace.
C27_ParseNeverThrows ==
    IsDef(eventParsed) =>
        /\ Val(eventParsed).kind \in {"object", "partial", "null"}
        /\ Val(eventParsed).kind = "partial" =>
              Val(eventParsed).keys /= {} /\ Val(eventParsed).keys \subseteq {"P"}
        /\ ~HasBalancedObject(DecodedText) => Val(eventParsed).kind = "null"

\* a payload cut short by its length word, whose braces balance around
\* text that is no JSON, has been parsed to a partial record
C27_Witness ==
    /\ IsDef(eventParsed)
    /\ eventInput.form = "abi"
    /\ eventInput.length < Len(eventInput.payload)
    /\ ~JsonParses(DecodedText)
    /\ Val(eventParsed).kind = "partial"

=============================================================================
